---- MODULE Spec2Model ----
(***************************************************************************)
(* Model of the SX126x LoRa modem driver (sx126x-rs): the byte-layout      *)
(* codec (op/*.rs), the configuration aggregate (conf.rs), the wait        *)
(* abstraction (sx/wait.rs) and the driver's composite operations          *)
(* init_async and write_bytes_async (sx/mod.rs).                           *)
(*                                                                         *)
(* The driver is a single thread of control.  Every bus transaction, pin   *)
(* write and pin sample it performs is appended to the history variable    *)
(* trace, so that the order of the steps of one call can be stated.        *)
(***************************************************************************)
EXTENDS Integers, Sequences, FiniteSets, TLC

VARIABLES variant, ant, hung, prior, nrst, op, pc, sub, conf, args, trace, result,
          status, rxbuf, disturbed

vars == <<variant, ant, hung, prior, nrst, op, pc, sub, conf, args, trace, result,
          status, rxbuf, disturbed>>

(***************************************************************************)
(* Bounds of the model.                                                    *)
(***************************************************************************)
\* Disturbances the environment injects during one call: a bus transaction
\* or pin read that fails, or a sample of a waited-on line that reads the
\* level that is not awaited.
MaxDisturb == 1

(***************************************************************************)
(* Integer helpers: fixed-width big-endian encodings.                      *)
(***************************************************************************)
Pow2(n) == 2 ^ n

\* u16::to_be_bytes
U16BE(v) == << (v \div 256) % 256, v % 256 >>

\* u32::to_be_bytes
U32BE(v) == << (v \div 16777216) % 256, (v \div 65536) % 256,
               (v \div 256) % 256, v % 256 >>

\* `x as u8` on a usize: keeps the low 8 bits.
AsU8(v) == v % 256

BoolU8(b) == IF b THEN 1 ELSE 0

(***************************************************************************)
(* IEEE-754 binary32 arithmetic, as used by calc_rf_freq.  A positive f32  *)
(* is the pair <<m, e>> with 2^23 <= m < 2^24 and value m * 2^e.  All      *)
(* intermediate integers stay below 2^31.                                  *)
(***************************************************************************)
F32Mant == 24

\* Round-to-nearest-even of q + rem/den (0 <= rem < den) to an integer.
RoundNearestEven(q, rem, den) ==
    IF 2 * rem > den \/ (2 * rem = den /\ q % 2 = 1) THEN q + 1 ELSE q

\* Renormalise a mantissa that rounding carried up to 2^24.
F32Norm(m, e) == IF m = Pow2(F32Mant) THEN << Pow2(F32Mant - 1), e + 1 >> ELSE << m, e >>

\* Long division: the f32 nearest to (q + r/d) * 2^e, given q < 2^24.
RECURSIVE F32DivLoop(_, _, _, _)
F32DivLoop(q, r, d, e) ==
    IF q >= Pow2(F32Mant - 1)
    THEN F32Norm(RoundNearestEven(q, r, d), e)
    ELSE F32DivLoop(2 * q + (IF 2 * r >= d THEN 1 ELSE 0),
                    (2 * r) % d, d, e - 1)

\* Shift a too-wide integer quotient right until it has 24 bits, keeping the
\* discarded bits (lost, out of 2^k) and whether a remainder follows them.
RECURSIVE F32ShiftLoop(_, _, _, _, _)
F32ShiftLoop(q, lost, k, sticky, e) ==
    IF q < Pow2(F32Mant)
    THEN F32Norm(RoundNearestEven(q, 2 * lost + (IF sticky THEN 1 ELSE 0),
                                  2 * Pow2(k)), e)
    ELSE F32ShiftLoop(q \div 2, lost + (q % 2) * Pow2(k), k + 1, sticky, e + 1)

\* The f32 nearest to the rational n/d (n, d > 0, d < 2^30): how rustc reads a
\* decimal literal, and how an f32 division of two exact values rounds.
F32FromRatio(n, d) ==
    IF n \div d >= Pow2(F32Mant)
    THEN F32ShiftLoop(n \div d, 0, 0, n % d # 0, 0)
    ELSE F32DivLoop(n \div d, n % d, d, 0)

\* f32 division a / b.
F32Div(a, b) ==
    LET r == F32FromRatio(a[1], b[1]) IN << r[1], r[2] + a[2] - b[2] >>

\* f32 multiplication a * b: the 48-bit product of the mantissas is built
\* from 12-bit limbs as H * 2^24 + L and rounded to 24 bits.
F32Mul(a, b) ==
    LET a1 == a[1] \div 4096  a0 == a[1] % 4096
        b1 == b[1] \div 4096  b0 == b[1] % 4096
        mid == a1 * b0 + a0 * b1
        low == (mid % 4096) * 4096 + a0 * b0
        L == low % Pow2(24)
        H == a1 * b1 + (mid \div 4096) + (low \div Pow2(24))
        e == a[2] + b[2]
    IN IF H >= Pow2(23)
       THEN F32Norm(RoundNearestEven(H, L, Pow2(24)), e + 24)
       ELSE F32Norm(RoundNearestEven(2 * H + (L \div Pow2(23)), L % Pow2(23), Pow2(23)),
                    e + 23)

\* `x as u32` for a positive f32: truncation toward zero.
F32AsU32(a) ==
    IF a[2] >= 0 THEN a[1] * Pow2(a[2]) ELSE a[1] \div Pow2(0 - a[2])

\* calc_rf_freq with the constant 2^24 in place of 2^25.
calc_rf_freq_2_24(fn, fd, xn, xd) ==
    F32AsU32(F32Mul(F32FromRatio(fn, fd),
                    F32Div(F32FromRatio(16777216, 1), F32FromRatio(xn, xd))))

\* calc_rf_freq(rf_frequency, f_xtal) = (rf_frequency * (33554432. / f_xtal)) as u32,
\* the arguments being the f32 values of the rationals fn/fd and xn/xd.
calc_rf_freq(fn, fd, xn, xd) ==
    F32AsU32(F32Mul(F32FromRatio(fn, fd),
                    F32Div(F32FromRatio(33554432, 1), F32FromRatio(xn, xd))))

(***************************************************************************)
(* Byte-layout codec (op/calib.rs, op/packet.rs, op/modulation.rs).        *)
(***************************************************************************)
\* CalibParam::new: flag i sets bit i, bit 7 is reserved.
CalibParam_new(rc64k, rc13m, pll, adc_pulse, adc_bulk_n, adc_bulk_p, image) ==
    BoolU8(rc64k) + 2 * BoolU8(rc13m) + 4 * BoolU8(pll) + 8 * BoolU8(adc_pulse)
    + 16 * BoolU8(adc_bulk_n) + 32 * BoolU8(adc_bulk_p) + 64 * BoolU8(image)
    + 128 * 0

\* From<u8> for CalibParam without the mask.
CalibParamFrom_unmasked(val) == val

\* From<u8> for CalibParam: val & 0x7F.  A CalibParam is represented by its
\* inner byte, which From<CalibParam> for u8 returns as it is.
CalibParamFrom(val) == val % 128

\* enum CalibImageFreq, as its u16 discriminant.
MHz430_440 == 27503
MHz470_510 == 30081
MHz779_787 == 49605
MHz863_870 == 55259
MHz902_928 == 57833

\* from_rf_frequency with half-open ranges (902..928 for 902..=928).
from_rf_frequency_exclusive(rf_freq) ==
    LET mhz == rf_freq \div 1000000 IN
    CASE mhz >= 902 /\ mhz < 928 -> MHz902_928
      [] mhz >= 863 /\ mhz < 870 -> MHz863_870
      [] mhz >= 779 /\ mhz < 787 -> MHz779_787
      [] mhz >= 470 /\ mhz < 510 -> MHz470_510
      [] mhz >= 430 /\ mhz < 440 -> MHz430_440
      [] OTHER -> MHz902_928

\* CalibImageFreq::from_rf_frequency(rf_freq): match rf_freq / 1000000.
from_rf_frequency(rf_freq) ==
    LET mhz == rf_freq \div 1000000 IN
    CASE mhz >= 902 /\ mhz <= 928 -> MHz902_928
      [] mhz >= 863 /\ mhz <= 870 -> MHz863_870
      [] mhz >= 779 /\ mhz <= 787 -> MHz779_787
      [] mhz >= 470 /\ mhz <= 510 -> MHz470_510
      [] mhz >= 430 /\ mhz <= 440 -> MHz430_440
      [] OTHER -> MHz902_928

\* From<CalibImageFreq> for [u8; 2]
CalibImageFreqBytes(f) == U16BE(f)

\* enum PacketType
PacketType_GFSK == 0
PacketType_LoRa == 1

\* The outcome of a From<u8> conversion that may panic.
Decoded(v) == [panicked |-> FALSE, val |-> v]
Panicked == [panicked |-> TRUE, val |-> 0]

\* From<u8> for PacketType: any other byte hits unreachable!().
PacketTypeFrom(b) ==
    CASE b = 0 -> Decoded(PacketType_GFSK)
      [] b = 1 -> Decoded(PacketType_LoRa)
      [] OTHER -> Panicked

\* enums of op/packet.rs
VarLen == 0
FixedLen == 1
CrcOff == 0
CrcOn == 1
IqStandard == 0
IqInverted == 1

\* LoRaPacketParams::default()
LoRaPacketParams_default ==
    [preamble_len |-> 8, header_type |-> VarLen, payload_len |-> 0,
     crc_type |-> CrcOff, invert_iq |-> IqStandard]

set_preamble_len(p, v) == [p EXCEPT !.preamble_len = v]
set_header_type(p, v) == [p EXCEPT !.header_type = v]
set_payload_len(p, v) == [p EXCEPT !.payload_len = v]
set_crc_type(p, v) == [p EXCEPT !.crc_type = v]
set_invert_iq(p, v) == [p EXCEPT !.invert_iq = v]

\* PacketParamsFrom with the preamble length little-endian.
PacketParamsFrom_le(p) ==
    << U16BE(p.preamble_len)[2], U16BE(p.preamble_len)[1], p.header_type,
       p.payload_len, p.crc_type, p.invert_iq, 0, 0, 0 >>

\* From<LoRaPacketParams> for PacketParams: the 9-byte block.
PacketParamsFrom(p) ==
    << U16BE(p.preamble_len)[1], U16BE(p.preamble_len)[2], p.header_type,
       p.payload_len, p.crc_type, p.invert_iq, 0, 0, 0 >>

\* From<&LoRaPacketParams> for PacketParams: the 9-byte block of a reference.
PacketParamsFromRef(p) ==
    << U16BE(p.preamble_len)[1], U16BE(p.preamble_len)[2], p.header_type,
       p.payload_len, p.crc_type, p.invert_iq, 0, 0, 0 >>

\* enums of op/modulation.rs
SF5 == 5
SF6 == 6
SF7 == 7
SF8 == 8
SF9 == 9
SF10 == 10
SF11 == 11
SF12 == 12
BW7 == 0
BW10 == 8
BW15 == 1
BW20 == 9
BW31 == 2
BW41 == 10
BW62 == 3
BW125 == 4
BW250 == 5
BW500 == 6
CR4_5 == 1
CR4_6 == 2
CR4_7 == 3
CR4_8 == 4

\* From<u8> for LoRaSpreadFactor
LoRaSpreadFactorFrom(value) ==
    CASE value = 5 -> Decoded(SF5)
      [] value = 6 -> Decoded(SF6)
      [] value = 7 -> Decoded(SF7)
      [] value = 8 -> Decoded(SF8)
      [] value = 9 -> Decoded(SF9)
      [] value = 10 -> Decoded(SF10)
      [] value = 11 -> Decoded(SF11)
      [] value = 12 -> Decoded(SF12)
      [] OTHER -> Panicked

\* From<u8> for LoRaBandWidth with a default arm instead of the panic.
LoRaBandWidthFrom_default(value) ==
    CASE value = 0 -> Decoded(BW7)
      [] value = 8 -> Decoded(BW10)
      [] value = 1 -> Decoded(BW15)
      [] value = 9 -> Decoded(BW20)
      [] value = 2 -> Decoded(BW31)
      [] value = 10 -> Decoded(BW41)
      [] value = 3 -> Decoded(BW62)
      [] value = 4 -> Decoded(BW125)
      [] value = 5 -> Decoded(BW250)
      [] value = 6 -> Decoded(BW500)
      [] OTHER -> Decoded(BW125)

\* From<u8> for LoRaBandWidth
LoRaBandWidthFrom(value) ==
    CASE value = 0 -> Decoded(BW7)
      [] value = 8 -> Decoded(BW10)
      [] value = 1 -> Decoded(BW15)
      [] value = 9 -> Decoded(BW20)
      [] value = 2 -> Decoded(BW31)
      [] value = 10 -> Decoded(BW41)
      [] value = 3 -> Decoded(BW62)
      [] value = 4 -> Decoded(BW125)
      [] value = 5 -> Decoded(BW250)
      [] value = 6 -> Decoded(BW500)
      [] OTHER -> Panicked

\* From<u8> for LoraCodingRate
LoraCodingRateFrom(value) ==
    CASE value = 1 -> Decoded(CR4_5)
      [] value = 2 -> Decoded(CR4_6)
      [] value = 3 -> Decoded(CR4_7)
      [] value = 4 -> Decoded(CR4_8)
      [] OTHER -> Panicked

\* LoraModParams::default()
LoraModParams_default ==
    [spread_factor |-> SF7, bandwidth |-> BW125, coding_rate |-> CR4_5,
     low_data_rate_optimize |-> FALSE]

\* ModParamsFrom with coding rate and bandwidth in each other's place.
ModParamsFrom_swapped(p) ==
    << p.spread_factor, p.coding_rate, p.bandwidth,
       BoolU8(p.low_data_rate_optimize), 0, 0, 0, 0 >>

\* ModParamsFrom that leaves the flag in the first reserved byte as well.
ModParamsFrom_reserved(p) ==
    << p.spread_factor, p.bandwidth, p.coding_rate,
       BoolU8(p.low_data_rate_optimize), BoolU8(p.low_data_rate_optimize),
       0, 0, 0 >>

\* From<LoraModParams> for ModParams: the 8-byte block.
ModParamsFrom(p) ==
    << p.spread_factor, p.bandwidth, p.coding_rate,
       BoolU8(p.low_data_rate_optimize), 0, 0, 0, 0 >>

\* ModParams getters: each decodes one byte of inner.
get_spread_factor(mp) == LoRaSpreadFactorFrom(mp[1])
get_bandwidth(mp) == LoRaBandWidthFrom(mp[2])
get_coding_rate(mp) == LoraCodingRateFrom(mp[3])
get_low_dr_opt(mp) == mp[4] # 0

\* op/cad.rs: the range-checked constructors of the CAD parameters.
CadDetPeak_MIN == 18
CadDetPeak_MAX == 35
CadDetMin_MIN == 10
CadDetMin_MAX == 10
CadTimeout_MIN == 0
CadTimeout_MAX == 16777215

\* Result<Self, &'static str> of a constructor.
CadOk(value) == [ok |-> TRUE, val |-> value, err |-> ""]
CadErr(msg) == [ok |-> FALSE, val |-> 0, err |-> msg]

\* CadDetPeak::new(value)
CadDetPeak_new(value) ==
    IF value >= CadDetPeak_MIN /\ value <= CadDetPeak_MAX
    THEN CadOk(value) ELSE CadErr("Value out of range")

\* CadDetMin::new(value)
CadDetMin_new(value) ==
    IF value >= CadDetMin_MIN /\ value <= CadDetMin_MAX
    THEN CadOk(value) ELSE CadErr("Value out of range")

\* CadTimeout::new(value)
CadTimeout_new(value) ==
    IF value >= CadTimeout_MIN /\ value <= CadTimeout_MAX
    THEN CadOk(value) ELSE CadErr("Value out of range")

(***************************************************************************)
(* Parameter types whose definitions are outside the modelled files        *)
(* (op/irq.rs, op/rxtx.rs, op/tcxo.rs, op/status.rs, reg.rs): modelled     *)
(* from the specification's data model.                                    *)
(***************************************************************************)
\* IrqMask::all() / IrqMask::none(): a 16-bit mask.
IrqMask_all == 65535
IrqMask_none == 0

\* RxTxTimeout into [u8; 3]: the 24-bit duration, most significant byte first.
RxTxTimeoutBytes(t) == << (t \div 65536) % 256, (t \div 256) % 256, t % 256 >>

\* Status::from(u8): a view over the status byte.
StatusFrom(b) == [inner |-> b]

\* StandbyConfig::StbyRc
StbyRc == 0
\* Register::LoRaSyncWordMsb
LoRaSyncWordMsb == 1856
\* TcxoVoltage::Volt3_3 and TcxoDelay::from_ms(1) as [u8; 3]
Volt3_3 == 7
TcxoDelay_1ms == << 0, 0, 64 >>

\* IrqStatus::from(u16), DeviceErrors::from(u16), Stats::from([u8; 7]),
\* PacketStatus::from([u8; 3]), RxBufferStatus::from([u8; 2]): views over the
\* decoded number or the raw bytes.
IrqStatusFrom(v) == [inner |-> v]
DeviceErrorsFrom(v) == [inner |-> v]
StatsFrom(bytes) == [inner |-> bytes]
PacketStatusFrom(bytes) == [inner |-> bytes]
RxBufferStatusFrom(bytes) == [inner |-> bytes]

Some(v) == [some |-> TRUE, val |-> v]
None == [some |-> FALSE, val |-> << >>]

(***************************************************************************)
(* Configuration aggregate (conf.rs).  target_hz is a history field that   *)
(* is not part of struct Config: the frequency in Hz the caller asked for  *)
(* when computing rf_freq with calc_rf_freq.                               *)
(***************************************************************************)
\* Config::default()
DefaultConfig ==
    LET rf_freq == calc_rf_freq(9052, 10, 32, 1) IN
    [packet_type |-> PacketType_LoRa,
     pa_config |-> << 4, 7, 0, 1 >>,
     tx_params |-> << 0, 4 >>,
     mod_params |-> ModParamsFrom(
         [LoraModParams_default EXCEPT !.bandwidth = BW250, !.coding_rate = CR4_7,
                                       !.spread_factor = SF9,
                                       !.low_data_rate_optimize = FALSE]),
     packet_params |-> Some(PacketParamsFrom(
         set_invert_iq(set_crc_type(set_payload_len(set_header_type(
             set_preamble_len(LoRaPacketParams_default, 8), VarLen), 255), CrcOn),
             IqStandard))),
     dio1_irq_mask |-> IrqMask_all,
     dio2_irq_mask |-> IrqMask_none,
     dio3_irq_mask |-> IrqMask_none,
     tcxo_opts |-> Some(<< Volt3_3 >> \o TcxoDelay_1ms),
     calib_param |-> CalibParam_new(TRUE, TRUE, TRUE, TRUE, TRUE, TRUE, TRUE),
     sync_word |-> 18,
     rf_frequency |-> rf_freq,
     rf_freq |-> rf_freq,
     target_hz |-> 905200000]

\* A Config the caller builds from the default profile (every field of
\* Config is public): with or without TCXO options and packet parameters,
\* for a target frequency given in MHz to calc_rf_freq(mhz, 32.0) (and the
\* same frequency in Hz), and with its own << dio1, dio2, dio3 >> masks.
CallerConfig(tcxo, pp, mhz, hz, masks) ==
    [DefaultConfig EXCEPT
       !.tcxo_opts = IF tcxo THEN DefaultConfig.tcxo_opts ELSE None,
       !.packet_params = IF pp THEN DefaultConfig.packet_params ELSE None,
       !.rf_freq = calc_rf_freq(mhz, 1, 32, 1),
       !.rf_frequency = mhz,
       !.target_hz = hz,
       !.dio1_irq_mask = masks[1], !.dio2_irq_mask = masks[2],
       !.dio3_irq_mask = masks[3]]

\* The configurations init_async is called with.
Configs ==
    { DefaultConfig,
      CallerConfig(TRUE, TRUE, 868, 868000000, << 3, 512, 64 >>),
      CallerConfig(FALSE, TRUE, 433, 433000000, << 65535, 0, 0 >>),
      CallerConfig(TRUE, FALSE, 915, 915000000, << 3, 512, 64 >>),
      CallerConfig(FALSE, FALSE, 868, 868000000, << 65535, 0, 0 >>),
      CallerConfig(FALSE, FALSE, 780, 780000000, << 515, 515, 515 >>) }

(***************************************************************************)
(* Driver command surface (sx/mod.rs).  A command is the one bus           *)
(* transaction it issues: kind "write" (only Write operations),            *)
(* "transfer" (transfer_in_place) or "delay" (DelayNs), the bytes written  *)
(* in order, and the error kind its map_err produces on a bus failure.     *)
(***************************************************************************)
Cmd(kind, data, err) == [kind |-> kind, data |-> data, err |-> err]

\* A transaction that writes `data` and then reads n bytes (Operation::Read).
CmdRead(data, n, err) == [kind |-> "read", data |-> data, err |-> err, reads |-> n]

\* const NOP
NOP == 0

set_standby(standby_config) == Cmd("write", << 128, standby_config >>, "Write")

set_packet_type(packet_type) == Cmd("write", << 138, packet_type >>, "Write")

\* set_rf_frequency with the register value least significant byte first.
set_rf_frequency_le(rf_freq) ==
    Cmd("write", << 134, U32BE(rf_freq)[4], U32BE(rf_freq)[3], U32BE(rf_freq)[2],
                   U32BE(rf_freq)[1] >>, "Write")

set_rf_frequency(rf_freq) == Cmd("write", << 134 >> \o U32BE(rf_freq), "Write")

set_dio3_as_tcxo_ctrl(tcxo_voltage, tcxo_delay) ==
    Cmd("write", << 151, tcxo_voltage >> \o tcxo_delay, "Write")

calibrate(calib_param) == Cmd("write", << 137, calib_param >>, "Write")

calibrate_image(freq) == Cmd("write", << 152 >> \o CalibImageFreqBytes(freq), "Write")

set_pa_config(pa_config) == Cmd("write", << 149 >> \o pa_config, "Write")

set_tx_params(params) == Cmd("write", << 142 >> \o params, "Write")

set_buffer_base_address(tx_base_addr, rx_base_addr) ==
    Cmd("write", << 143, tx_base_addr, rx_base_addr >>, "Write")

set_mod_params(params) == Cmd("write", << 139 >> \o params, "Write")

set_packet_params(params) == Cmd("write", << 140 >> \o params, "Write")

set_dio_irq_params(irq_mask, dio1_mask, dio2_mask, dio3_mask) ==
    Cmd("write", << 8 >> \o U16BE(irq_mask) \o U16BE(dio1_mask)
                        \o U16BE(dio2_mask) \o U16BE(dio3_mask), "Transfer")

set_dio2_as_rf_switch_ctrl(enable) == Cmd("write", << 157, BoolU8(enable) >>, "Write")

write_register(register, data) ==
    Cmd("write", << 13 >> \o U16BE(register) \o data, "Write")

set_sync_word(sync_word) == write_register(LoRaSyncWordMsb, U16BE(sync_word))

write_buffer(offset, data) == Cmd("write", << 14, offset >> \o data, "Write")

clear_irq_status(mask) == Cmd("write", << 2 >> \o U16BE(mask), "Write")

\* set_tx: the 4-byte buffer [0x83, timeout bytes] handed to transfer_in_place.
set_tx(timeout) == Cmd("transfer", << 131 >> \o RxTxTimeoutBytes(timeout), "Transfer")

\* The Status set_tx returns once the transfer succeeded: buf is the buffer
\* after the transfer (the chip's answer), timeout the request's three bytes;
\* the code decodes timeout[1].
set_tx_status(buf, timeout) == StatusFrom(RxTxTimeoutBytes(timeout)[2])

\* The commands init_async and write_bytes_async do not use.
get_status == Cmd("transfer", << 192, NOP >>, "Transfer")
get_status_value(buf) == StatusFrom(buf[2])

set_fs == Cmd("write", << 193 >>, "Transfer")

\* get_stats sending the opcode 0x00 (ResetStats) for 0x10.
get_stats_reset == Cmd("transfer", << 0, NOP, NOP, NOP, NOP, NOP, NOP, NOP >>, "Transfer")

get_stats == Cmd("transfer", << 16, NOP, NOP, NOP, NOP, NOP, NOP, NOP >>, "Transfer")
get_stats_value(buf) == StatsFrom(SubSeq(buf, 2, 8))

\* read_register: opcode, start address, then Operation::Read(result).
read_register(start_addr, n) == CmdRead(<< 29 >> \o U16BE(start_addr), n, "Transfer")

\* read_buffer: header [0x1E, offset, NOP], then Operation::Read(result).
read_buffer(offset, n) == CmdRead(<< 30, offset, NOP >>, n, "Transfer")

get_packet_status == CmdRead(<< 20, NOP >>, 3, "Transfer")
get_packet_status_value(buf) == PacketStatusFrom(buf)

clear_device_errors == Cmd("write", << 7, NOP, NOP >>, "Write")

get_device_errors == Cmd("transfer", << 23, NOP, NOP, NOP >>, "Transfer")
\* DeviceErrors::from(u16::from_le_bytes(result[2..]))
get_device_errors_value(buf) == DeviceErrorsFrom(buf[3] + 256 * buf[4])

get_irq_status == CmdRead(<< 18 >>, 3, "Transfer")
\* u16::from_be_bytes([status[1], status[2]]).into()
get_irq_status_value(buf) == IrqStatusFrom(256 * buf[2] + buf[3])

\* set_rx: the 4-byte buffer [0x82, timeout bytes] handed to spi.write; it
\* returns timeout[0].into().
set_rx(timeout) == Cmd("write", << 130 >> \o RxTxTimeoutBytes(timeout), "Transfer")
set_rx_status(timeout) == StatusFrom(RxTxTimeoutBytes(timeout)[1])

get_rx_buffer_status == Cmd("transfer", << 19, NOP, NOP, NOP >>, "Transfer")
get_rx_buffer_status_value(buf) == RxBufferStatusFrom(SubSeq(buf, 3, 4))

\* set_ant_enabled(enabled): the level ant_pin is driven to (set_high or
\* set_low).
set_ant_enabled(enabled) == IF enabled THEN 1 ELSE 0

\* The value of an operation that returns Ok(()).
Unit == [unit |-> TRUE]

\* reset: how long the reset line is held low, and the delay that starts
\* wait_on_busy_async, in nanoseconds.
ResetDelayNs == 200000
BusyDelayNs == 1000

(***************************************************************************)
(* init_async: the order of its steps and the command of each step.        *)
(***************************************************************************)
\* InitNextStep with SetPaConfig and SetTxParams in the other order.
InitNextStep_swapped(step, c) ==
    CASE step = "reset" -> "set_standby"
      [] step = "set_standby" -> "set_packet_type"
      [] step = "set_packet_type" -> "set_rf_frequency"
      [] step = "set_rf_frequency" ->
            IF c.tcxo_opts.some THEN "set_dio3_as_tcxo_ctrl" ELSE "calibrate"
      [] step = "set_dio3_as_tcxo_ctrl" -> "calibrate"
      [] step = "calibrate" -> "calibrate_image"
      [] step = "calibrate_image" -> "set_tx_params"
      [] step = "set_tx_params" -> "set_pa_config"
      [] step = "set_pa_config" -> "set_buffer_base_address"
      [] step = "set_buffer_base_address" -> "set_mod_params"
      [] step = "set_mod_params" ->
            IF c.packet_params.some THEN "set_packet_params" ELSE "set_dio_irq_params"
      [] step = "set_packet_params" -> "set_dio_irq_params"
      [] step = "set_dio_irq_params" -> "set_dio2_as_rf_switch_ctrl"
      [] step = "set_dio2_as_rf_switch_ctrl" -> "set_sync_word"
      [] step = "set_sync_word" -> "return"

\* InitNextStep where a missing TCXO block also skips Calibrate.
InitNextStep_skip(step, c) ==
    CASE step = "reset" -> "set_standby"
      [] step = "set_standby" -> "set_packet_type"
      [] step = "set_packet_type" -> "set_rf_frequency"
      [] step = "set_rf_frequency" ->
            IF c.tcxo_opts.some THEN "set_dio3_as_tcxo_ctrl" ELSE "calibrate_image"
      [] step = "set_dio3_as_tcxo_ctrl" -> "calibrate"
      [] step = "calibrate" -> "calibrate_image"
      [] step = "calibrate_image" -> "set_pa_config"
      [] step = "set_pa_config" -> "set_tx_params"
      [] step = "set_tx_params" -> "set_buffer_base_address"
      [] step = "set_buffer_base_address" -> "set_mod_params"
      [] step = "set_mod_params" ->
            IF c.packet_params.some THEN "set_packet_params" ELSE "set_dio_irq_params"
      [] step = "set_packet_params" -> "set_dio_irq_params"
      [] step = "set_dio_irq_params" -> "set_dio2_as_rf_switch_ctrl"
      [] step = "set_dio2_as_rf_switch_ctrl" -> "set_sync_word"
      [] step = "set_sync_word" -> "return"

\* The statement that follows step `step` (after its busy-wait).
InitNextStep(step, c) ==
    CASE step = "reset" -> "set_standby"
      [] step = "set_standby" -> "set_packet_type"
      [] step = "set_packet_type" -> "set_rf_frequency"
      [] step = "set_rf_frequency" ->
            IF c.tcxo_opts.some THEN "set_dio3_as_tcxo_ctrl" ELSE "calibrate"
      [] step = "set_dio3_as_tcxo_ctrl" -> "calibrate"
      [] step = "calibrate" -> "calibrate_image"
      [] step = "calibrate_image" -> "set_pa_config"
      [] step = "set_pa_config" -> "set_tx_params"
      [] step = "set_tx_params" -> "set_buffer_base_address"
      [] step = "set_buffer_base_address" -> "set_mod_params"
      [] step = "set_mod_params" ->
            IF c.packet_params.some THEN "set_packet_params" ELSE "set_dio_irq_params"
      [] step = "set_packet_params" -> "set_dio_irq_params"
      [] step = "set_dio_irq_params" -> "set_dio2_as_rf_switch_ctrl"
      [] step = "set_dio2_as_rf_switch_ctrl" -> "set_sync_word"
      [] step = "set_sync_word" -> "return"

\* InitEntry where a driver that was brought up before skips the reset.
InitEntry_skip_reset(again) == IF again THEN "set_standby" ELSE "reset"

\* The first statement of init_async: self.reset(), on every call.
InitEntry(again) == "reset"

\* The image-calibration band init_async asks for.
InitCalibImage(c) == from_rf_frequency(c.rf_freq)

\* InitDioIrqParams with the DIO1 mask handed to all three pins.
InitDioIrqParams_dio1_everywhere(c) ==
    set_dio_irq_params(c.dio1_irq_mask, c.dio1_irq_mask, c.dio1_irq_mask, c.dio1_irq_mask)

\* The masks init_async hands to set_dio_irq_params.
InitDioIrqParams(c) ==
    set_dio_irq_params(c.dio1_irq_mask, c.dio1_irq_mask, c.dio2_irq_mask, c.dio3_irq_mask)

\* The command step `step` of init_async issues for configuration c.
InitCmd(step, c) ==
    CASE step = "set_standby" -> set_standby(StbyRc)
      [] step = "set_packet_type" -> set_packet_type(c.packet_type)
      [] step = "set_rf_frequency" -> set_rf_frequency(c.rf_freq)
      [] step = "set_dio3_as_tcxo_ctrl" ->
            set_dio3_as_tcxo_ctrl(c.tcxo_opts.val[1], SubSeq(c.tcxo_opts.val, 2, 4))
      [] step = "calibrate" -> calibrate(c.calib_param)
      [] step = "calibrate_image" -> calibrate_image(InitCalibImage(c))
      [] step = "set_pa_config" -> set_pa_config(c.pa_config)
      [] step = "set_tx_params" -> set_tx_params(c.tx_params)
      [] step = "set_buffer_base_address" -> set_buffer_base_address(0, 0)
      [] step = "set_mod_params" -> set_mod_params(c.mod_params)
      [] step = "set_packet_params" -> set_packet_params(c.packet_params.val)
      [] step = "set_dio_irq_params" -> InitDioIrqParams(c)
      [] step = "set_dio2_as_rf_switch_ctrl" -> set_dio2_as_rf_switch_ctrl(TRUE)
      [] step = "set_sync_word" -> set_sync_word(c.sync_word)

InitCmdSteps ==
    { "set_standby", "set_packet_type", "set_rf_frequency", "set_dio3_as_tcxo_ctrl",
      "calibrate", "calibrate_image", "set_pa_config", "set_tx_params",
      "set_buffer_base_address", "set_mod_params", "set_packet_params",
      "set_dio_irq_params", "set_dio2_as_rf_switch_ctrl", "set_sync_word" }

\* Every step of init_async is followed by self.wait_on_busy_async().await.
InitWaits_missing(step) == step # "calibrate"

InitWaits(step) == TRUE

\* What init_async does with the Result of a step: no `?` follows any call,
\* so the next statement runs whatever the step returned.
InitAfter(step, c, stepOk) == InitNextStep(step, c)

(***************************************************************************)
(* write_bytes_async: the packet parameters it builds and its steps.       *)
(***************************************************************************)
\* The payload-length byte programmed for a payload: data.len() as u8.
SendPayloadLen(data) == AsU8(Len(data))

SendPacketParams(a) ==
    PacketParamsFrom(set_crc_type(set_payload_len(
        set_preamble_len(LoRaPacketParams_default, a.preamble_len),
        SendPayloadLen(a.data)), a.crc_type))

\* The step that follows `step` when `step` returned Ok.
SendNextStep(step) ==
    CASE step = "write_buffer" -> "set_packet_params"
      [] step = "set_packet_params" -> "set_tx"
      [] step = "set_tx" -> "wait_on_busy"
      [] step = "wait_on_busy" -> "wait_on_dio1"
      [] step = "wait_on_dio1" -> "clear_irq_status"
      [] step = "clear_irq_status" -> "return"

\* SendAfter without the `?`: the next step runs whatever the step returned.
SendAfter_ignore(step, stepOk) == SendNextStep(step)

\* Every step of write_bytes_async is followed by `?`: an Err returns at once.
SendAfter(step, stepOk) == IF stepOk THEN SendNextStep(step) ELSE "return"

SendCmd(step, a) ==
    CASE step = "write_buffer" -> write_buffer(0, a.data)
      [] step = "set_packet_params" -> set_packet_params(SendPacketParams(a))
      [] step = "set_tx" -> set_tx(a.timeout)
      [] step = "clear_irq_status" -> clear_irq_status(IrqMask_all)

SendCmdSteps == { "write_buffer", "set_packet_params", "set_tx", "clear_irq_status" }

\* The error write_bytes_async returns when `step` failed with kind `err`:
\* the two waits map every PinError to SpiError::BusError.
SendErr(step, err) ==
    IF step \in { "wait_on_busy", "wait_on_dio1" } THEN "BusError" ELSE err

(***************************************************************************)
(* The environment: what callers pass and what the hardware answers.       *)
(***************************************************************************)
\* Payload lengths a caller's slice may have (a &[u8] has any length).
PayloadLens == { 0, 1, 255, 256 }
Payloads == { [i \in 1..n |-> 171] : n \in PayloadLens }
\* RxTxTimeout values: none, 1000 ms (1000 << 6) and a value with three
\* different bytes.
Timeouts == { 0, 64000, 1193046 }
PreambleLens == { 8, 4660 }
CrcTypes == { CrcOff, CrcOn }

SendArgs ==
    [data : Payloads, timeout : Timeouts, preamble_len : PreambleLens,
     crc_type : CrcTypes]

NoArgs == [data |-> << >>, timeout |-> 0, preamble_len |-> 0, crc_type |-> CrcOff]

\* Status bytes the chip shifts out while a command is clocked in.
ChipStatusBytes == { 44, 172 }
ChipAnswers == { << b, b, b, b >> : b \in ChipStatusBytes }

\* What the chip shifts out, byte by byte, during one transaction: its
\* status byte first, then bytes that all differ.
MisoStreams ==
    { << 44, 18, 52, 86, 120, 154, 188, 222 >>, << 172, 1, 2, 3, 4, 5, 6, 7 >> }

\* The single-command operations of the driver and the arguments each is
\* called with.
CommandNames ==
    { "set_sync_word", "set_packet_type", "set_standby", "get_status", "set_fs",
      "get_stats", "calibrate_image", "calibrate", "write_register",
      "read_register", "write_buffer", "read_buffer", "set_dio2_as_rf_switch_ctrl",
      "get_packet_status", "set_dio3_as_tcxo_ctrl", "clear_device_errors",
      "get_device_errors", "set_dio_irq_params", "get_irq_status",
      "clear_irq_status", "set_tx", "set_rx", "set_packet_params",
      "set_mod_params", "set_tx_params", "set_rf_frequency", "set_pa_config",
      "set_buffer_base_address", "get_rx_buffer_status" }

CommandArg(name) ==
    CASE name = "set_sync_word" -> << 5156 >>
      [] name = "set_packet_type" -> << PacketType_LoRa >>
      [] name = "set_standby" -> << StbyRc >>
      [] name = "calibrate_image" -> << MHz863_870 >>
      [] name = "calibrate" -> << CalibParam_new(TRUE, FALSE, TRUE, FALSE, TRUE, FALSE, TRUE) >>
      [] name = "write_register" -> << LoRaSyncWordMsb, << 52, 68 >> >>
      [] name = "read_register" -> << LoRaSyncWordMsb, 2 >>
      [] name = "write_buffer" -> << 16, << 1, 2, 3 >> >>
      [] name = "read_buffer" -> << 16, 3 >>
      [] name = "set_dio2_as_rf_switch_ctrl" -> << FALSE >>
      [] name = "set_dio3_as_tcxo_ctrl" -> << Volt3_3, TcxoDelay_1ms >>
      [] name = "set_dio_irq_params" -> << 1027, 3, 512, 64 >>
      [] name = "clear_irq_status" -> << 515 >>
      [] name = "set_tx" -> << 1193046 >>
      [] name = "set_rx" -> << 1193046 >>
      [] name = "set_packet_params" -> << DefaultConfig.packet_params.val >>
      [] name = "set_mod_params" -> << DefaultConfig.mod_params >>
      [] name = "set_tx_params" -> << DefaultConfig.tx_params >>
      [] name = "set_rf_frequency" -> << 305419896 >>
      [] name = "set_pa_config" -> << DefaultConfig.pa_config >>
      [] name = "set_buffer_base_address" -> << 1, 128 >>
      [] OTHER -> << >>

\* The transaction the operation `name` issues for arguments a.
CommandCmd(name, a) ==
    CASE name = "set_sync_word" -> set_sync_word(a[1])
      [] name = "set_packet_type" -> set_packet_type(a[1])
      [] name = "set_standby" -> set_standby(a[1])
      [] name = "get_status" -> get_status
      [] name = "set_fs" -> set_fs
      [] name = "get_stats" -> get_stats
      [] name = "calibrate_image" -> calibrate_image(a[1])
      [] name = "calibrate" -> calibrate(a[1])
      [] name = "write_register" -> write_register(a[1], a[2])
      [] name = "read_register" -> read_register(a[1], a[2])
      [] name = "write_buffer" -> write_buffer(a[1], a[2])
      [] name = "read_buffer" -> read_buffer(a[1], a[2])
      [] name = "set_dio2_as_rf_switch_ctrl" -> set_dio2_as_rf_switch_ctrl(a[1])
      [] name = "get_packet_status" -> get_packet_status
      [] name = "set_dio3_as_tcxo_ctrl" -> set_dio3_as_tcxo_ctrl(a[1], a[2])
      [] name = "clear_device_errors" -> clear_device_errors
      [] name = "get_device_errors" -> get_device_errors
      [] name = "set_dio_irq_params" -> set_dio_irq_params(a[1], a[2], a[3], a[4])
      [] name = "get_irq_status" -> get_irq_status
      [] name = "clear_irq_status" -> clear_irq_status(a[1])
      [] name = "set_tx" -> set_tx(a[1])
      [] name = "set_rx" -> set_rx(a[1])
      [] name = "set_packet_params" -> set_packet_params(a[1])
      [] name = "set_mod_params" -> set_mod_params(a[1])
      [] name = "set_tx_params" -> set_tx_params(a[1])
      [] name = "set_rf_frequency" -> set_rf_frequency(a[1])
      [] name = "set_pa_config" -> set_pa_config(a[1])
      [] name = "set_buffer_base_address" -> set_buffer_base_address(a[1], a[2])
      [] name = "get_rx_buffer_status" -> get_rx_buffer_status

\* The value the operation returns in Ok, buf being the buffer the
\* transaction filled (the transfer buffer or the read buffer).
CommandValue(name, a, buf) ==
    CASE name = "get_status" -> get_status_value(buf)
      [] name = "get_stats" -> get_stats_value(buf)
      [] name = "get_packet_status" -> get_packet_status_value(buf)
      [] name = "get_device_errors" -> get_device_errors_value(buf)
      [] name = "get_irq_status" -> get_irq_status_value(buf)
      [] name = "set_tx" -> set_tx_status(buf, a[1])
      [] name = "set_rx" -> set_rx_status(a[1])
      [] name = "get_rx_buffer_status" -> get_rx_buffer_status_value(buf)
      [] OTHER -> Unit

\* The bytes a transaction receives from the stream the chip shifts out: a
\* transfer_in_place gets one byte per byte sent, an Operation::Read the
\* bytes that follow the written ones, a write none.
Received(cmd, miso) ==
    CASE cmd.kind = "transfer" -> SubSeq(miso, 1, Len(cmd.data))
      [] cmd.kind = "read" -> SubSeq(miso, Len(cmd.data) + 1, Len(cmd.data) + cmd.reads)
      [] OTHER -> << >>

\* CommandAfter where a failed transaction is issued again.
CommandAfter_retry(ok) == IF ok THEN "return" ELSE "transaction"

\* What a single-command operation does once its transaction returned: the
\* map_err'd Result is returned (with `?` or as the tail expression).
CommandAfter(ok) == "return"

\* The two implementations of AnyWait.
Variants == { "polling", "event" }

(***************************************************************************)
(* History of one call.  The variables that describe a call (conf, args,   *)
(* trace, result, status, rxbuf and the budget) are set afresh once the    *)
(* caller has taken the result; the reset line, the antenna-enable line    *)
(* (ant) and the driver's type                                             *)
(* persist.  hung is the set of input lines that are stuck at the level    *)
(* that is not awaited; prior tells what the call before the current one   *)
(* was when the caller started the current one on top of it.               *)
(***************************************************************************)
Ev(kind, data, ok) == [kind |-> kind, data |-> data, ok |-> ok]

\* A bus transaction may fail while the call's budget lasts.
Outcomes == IF disturbed < MaxDisturb THEN { TRUE, FALSE } ELSE { TRUE }
Spend(ok) == IF ok THEN disturbed ELSE disturbed + 1

(***************************************************************************)
(* Initial state: a driver just built by SX126x::new, no call made yet.    *)
(***************************************************************************)
Init ==
    /\ variant \in Variants
    /\ ant = 0
    /\ hung = { }
    /\ prior = "none"
    /\ nrst = 1
    /\ op = "none"
    /\ pc = "idle"
    /\ sub = "none"
    /\ conf = DefaultConfig
    /\ args = NoArgs
    /\ trace = << >>
    /\ result = "none"
    /\ status = StatusFrom(0)
    /\ rxbuf = << >>
    /\ disturbed = 0

(***************************************************************************)
(* init_async                                                              *)
(***************************************************************************)
CallInit ==
    /\ pc = "idle"
    /\ \E c \in Configs : conf' = c
    /\ op' = "init"
    /\ pc' = InitEntry(FALSE)
    /\ sub' = IF InitEntry(FALSE) = "reset" THEN "low" ELSE "call"
    /\ result' = "pending"
    /\ UNCHANGED << variant, ant, hung, prior, nrst, args, trace, status, rxbuf, disturbed >>

\* reset: nrst_pin.set_low() (the pin's Error is Infallible).
ResetSetLow ==
    /\ pc = "reset" /\ sub = "low"
    /\ nrst' = 0
    /\ trace' = Append(trace, Ev("nrst", << 0 >>, TRUE))
    /\ sub' = "delay"
    /\ UNCHANGED << variant, ant, hung, prior, op, pc, conf, args, result, status, rxbuf, disturbed >>

\* reset: the DelayNs(200_000) transaction; on failure `?` returns from
\* reset before set_high, and init_async goes on to its first busy-wait.
ResetDelay ==
    /\ pc = "reset" /\ sub = "delay"
    /\ \E ok \in Outcomes :
        /\ trace' = Append(trace, Ev("delay", << ResetDelayNs >>, ok))
        /\ disturbed' = Spend(ok)
        /\ sub' = IF ok THEN "high" ELSE "wait_delay"
    /\ UNCHANGED << variant, ant, hung, prior, nrst, op, pc, conf, args, result, status, rxbuf >>

\* reset: nrst_pin.set_high(), then reset returns Ok.
ResetSetHigh ==
    /\ pc = "reset" /\ sub = "high"
    /\ nrst' = 1
    /\ trace' = Append(trace, Ev("nrst", << 1 >>, TRUE))
    /\ sub' = "wait_delay"
    /\ UNCHANGED << variant, ant, hung, prior, op, pc, conf, args, result, status, rxbuf, disturbed >>

(***************************************************************************)
(* Continuation of the caller when the step at pc has returned.            *)
(***************************************************************************)
StepReturns(stepOk, err) ==
    LET next == IF op = "init" THEN InitAfter(pc, conf, stepOk)
                ELSE SendAfter(pc, stepOk)
    IN /\ pc' = IF next = "return" THEN "done" ELSE next
       /\ sub' = IF next = "return" THEN "none"
                 ELSE IF next = "wait_on_busy" THEN "wait_delay"
                 ELSE IF next = "wait_on_dio1" THEN "wait_pin"
                 ELSE "call"
       /\ result' = IF next # "return" THEN result
                    ELSE IF op = "init" THEN "Ok"
                    ELSE IF stepOk THEN "Ok" ELSE SendErr(pc, err)

\* One command of init_async, then its busy-wait; its Result is dropped.
InitCommand ==
    /\ op = "init" /\ pc \in InitCmdSteps /\ sub = "call"
    /\ \E ok \in Outcomes :
        /\ trace' = Append(trace, Ev(InitCmd(pc, conf).kind, InitCmd(pc, conf).data, ok))
        /\ disturbed' = Spend(ok)
        /\ IF InitWaits(pc)
           THEN /\ sub' = "wait_delay"
                /\ UNCHANGED << pc, result >>
           ELSE StepReturns(ok, InitCmd(pc, conf).err)
    /\ UNCHANGED << variant, ant, hung, prior, nrst, op, conf, args, status, rxbuf >>

(***************************************************************************)
(* wait_on_busy_async / wait_on_dio1_async (sx/mod.rs) over AnyWait        *)
(* (sx/wait.rs).                                                           *)
(***************************************************************************)
\* wait_on_busy_async: the DelayNs(1000) transaction; on failure the wait
\* returns Err(PinError::Output) without looking at the busy line.
WaitDelay ==
    /\ sub = "wait_delay"
    /\ \E ok \in Outcomes :
        /\ trace' = Append(trace, Ev("delay", << BusyDelayNs >>, ok))
        /\ disturbed' = Spend(ok)
        /\ IF ok
           THEN /\ sub' = "wait_pin"
                /\ UNCHANGED << pc, result >>
           ELSE StepReturns(FALSE, "Output")
    /\ UNCHANGED << variant, ant, hung, prior, nrst, op, conf, args, status, rxbuf >>

\* What anywait_for_low / anywait_for_high returns when reading the line
\* failed: the polling loop `while let Ok(false) = ...` ends and returns
\* Ok(()), the event-driven wait returns the pin's error.
AnyWaitOnReadError(v) == v = "polling"

\* WaitPin that waits for the other level: a sample that reads the level
\* the caller waits for keeps the wait going, the other level ends it.
WaitPin_other_level(line, awaited) ==
    /\ sub = "wait_pin"
    /\ line \notin hung
    /\ \/ UNCHANGED << trace, pc, sub, result, disturbed >>
       \/ /\ disturbed < MaxDisturb
          /\ trace' = Append(trace, Ev(line, << 1 - awaited >>, TRUE))
          /\ disturbed' = disturbed + 1
          /\ StepReturns(TRUE, "none")
       \/ /\ disturbed < MaxDisturb
          /\ trace' = Append(trace, Ev(line, << >>, FALSE))
          /\ disturbed' = disturbed + 1
          /\ StepReturns(AnyWaitOnReadError(variant), "Input")
    /\ UNCHANGED << variant, ant, hung, prior, nrst, op, conf, args, status, rxbuf >>

\* One observation of the awaited line, unless it is hung: it reads the
\* awaited level (the wait returns Ok), the other level (the wait goes on),
\* or the read fails.
WaitPin(line, awaited) ==
    /\ sub = "wait_pin"
    /\ line \notin hung
    /\ \/ /\ trace' = Append(trace, Ev(line, << awaited >>, TRUE))
          /\ StepReturns(TRUE, "none")
          /\ UNCHANGED disturbed
       \/ /\ disturbed < MaxDisturb
          /\ trace' = Append(trace, Ev(line, << 1 - awaited >>, TRUE))
          /\ disturbed' = disturbed + 1
          /\ UNCHANGED << pc, sub, result >>
       \/ /\ disturbed < MaxDisturb
          /\ trace' = Append(trace, Ev(line, << >>, FALSE))
          /\ disturbed' = disturbed + 1
          /\ StepReturns(AnyWaitOnReadError(variant), "Input")
    /\ UNCHANGED << variant, ant, hung, prior, nrst, op, conf, args, status, rxbuf >>

\* busy_pin.anywait_for_low()
WaitBusyLow ==
    /\ pc # "wait_on_dio1"
    /\ WaitPin("busy", 0)

\* dio1_pin.anywait_for_high()
WaitDio1High ==
    /\ pc = "wait_on_dio1"
    /\ WaitPin("dio1", 1)

\* The line the wait at pc is on, and the level it waits for.
WaitedLine(p) == IF p = "wait_on_dio1" THEN "dio1" ELSE "busy"
AwaitedLevel(line) == IF line = "dio1" THEN 1 ELSE 0

\* The line the driver is waiting on gets stuck at the level that is not
\* awaited, for good.
LineHangs ==
    /\ sub = "wait_pin"
    /\ hung = { }
    /\ disturbed < MaxDisturb
    /\ hung' = { WaitedLine(pc) }
    /\ disturbed' = disturbed + 1
    /\ UNCHANGED << variant, ant, prior, nrst, op, pc, sub, conf, args, trace, result,
                    status, rxbuf >>

\* WaitGivesUp where the polling loop stops sampling a line that stays put.
WaitGivesUp_polling(v) == v = "polling"

\* Whether a wait gives up on a line that keeps reading the other level:
\* the polling loops have no exit but the awaited level (or a failed read),
\* wait_for_high / wait_for_low complete only on the awaited level, and
\* wait_on_busy_async / wait_on_dio1_async add no timeout.
WaitGivesUp(v) == FALSE

\* One more observation of a hung line: it reads the other level again (the
\* history records the first such sample only).
SampleHungLine ==
    /\ sub = "wait_pin"
    /\ WaitedLine(pc) \in hung
    /\ LET e == Ev(WaitedLine(pc), << 1 - AwaitedLevel(WaitedLine(pc)) >>, TRUE)
       IN trace' = IF trace # << >> /\ trace[Len(trace)] = e THEN trace
                   ELSE Append(trace, e)
    /\ IF WaitGivesUp(variant)
       THEN StepReturns(FALSE, "Input")
       ELSE UNCHANGED << pc, sub, result >>
    /\ UNCHANGED << variant, ant, hung, prior, nrst, op, conf, args, status, rxbuf, disturbed >>

(***************************************************************************)
(* write_bytes_async                                                       *)
(***************************************************************************)
CallSend ==
    /\ pc = "idle"
    /\ \E a \in SendArgs : args' = a
    /\ op' = "send"
    /\ pc' = "write_buffer"
    /\ sub' = "call"
    /\ result' = "pending"
    /\ UNCHANGED << variant, ant, hung, prior, nrst, conf, trace, status, rxbuf, disturbed >>

\* write_buffer, set_packet_params, set_tx, clear_irq_status, each with `?`.
\* set_tx keeps the Status it returns; transfer_in_place overwrites the
\* buffer with the chip's answer.
SendCommand ==
    /\ op = "send" /\ pc \in SendCmdSteps /\ sub = "call"
    /\ \E ok \in Outcomes :
        /\ trace' = Append(trace, Ev(SendCmd(pc, args).kind, SendCmd(pc, args).data, ok))
        /\ disturbed' = Spend(ok)
        /\ IF pc = "set_tx" /\ ok
           THEN \E answer \in ChipAnswers :
                  /\ rxbuf' = answer
                  /\ status' = set_tx_status(answer, args.timeout)
           ELSE UNCHANGED << rxbuf, status >>
        /\ StepReturns(ok, SendCmd(pc, args).err)
    /\ UNCHANGED << variant, ant, hung, prior, nrst, op, conf, args >>

(***************************************************************************)
(* The single-command operations, called on their own.                     *)
(***************************************************************************)
CallCommand ==
    /\ pc = "idle"
    /\ \E name \in CommandNames : args' = [name |-> name, arg |-> CommandArg(name)]
    /\ op' = "command"
    /\ pc' = "transaction"
    /\ sub' = "call"
    /\ result' = "pending"
    /\ UNCHANGED << variant, ant, hung, prior, nrst, conf, trace, status, rxbuf, disturbed >>

\* The one transaction of the operation; on success the buffer it filled is
\* decoded into the returned value, on failure its error is returned.
CommandTransaction ==
    /\ op = "command" /\ pc = "transaction" /\ sub = "call"
    /\ LET cmd == CommandCmd(args.name, args.arg) IN
       \E ok \in Outcomes :
        /\ trace' = Append(trace, Ev(cmd.kind, cmd.data, ok))
        /\ disturbed' = Spend(ok)
        /\ IF ok
           THEN \E miso \in MisoStreams :
                  /\ rxbuf' = Received(cmd, miso)
                  /\ status' = CommandValue(args.name, args.arg, Received(cmd, miso))
           ELSE UNCHANGED << rxbuf, status >>
        /\ IF CommandAfter(ok) = "return"
           THEN /\ pc' = "done"
                /\ sub' = "none"
                /\ result' = IF ok THEN "Ok" ELSE cmd.err
           ELSE UNCHANGED << pc, sub, result >>
    /\ UNCHANGED << variant, ant, hung, prior, nrst, op, conf, args >>

\* set_ant_enabled(enabled) is called.
CallSetAntEnabled ==
    /\ pc = "idle"
    /\ \E enabled \in BOOLEAN : args' = [enabled |-> enabled]
    /\ op' = "set_ant_enabled"
    /\ pc' = "set_pin"
    /\ sub' = "call"
    /\ result' = "pending"
    /\ UNCHANGED << variant, ant, hung, prior, nrst, conf, trace, status, rxbuf, disturbed >>

\* ant_pin.set_high() or set_low() (the pin's Error is Infallible), whose
\* Result set_ant_enabled returns.
AntPinSet ==
    /\ op = "set_ant_enabled" /\ pc = "set_pin"
    /\ ant' = set_ant_enabled(args.enabled)
    /\ trace' = Append(trace, Ev("ant", << set_ant_enabled(args.enabled) >>, TRUE))
    /\ pc' = "done"
    /\ sub' = "none"
    /\ result' = "Ok"
    /\ UNCHANGED << variant, hung, prior, nrst, op, conf, args, status, rxbuf, disturbed >>

\* The caller has taken the result of the finished call; the driver is
\* idle again and only the reset and antenna-enable lines keep what the
\* call did to them.
Finish ==
    /\ pc = "done"
    /\ pc' = "idle"
    /\ op' = "none"
    /\ conf' = DefaultConfig
    /\ args' = NoArgs
    /\ trace' = << >>
    /\ result' = "none"
    /\ status' = StatusFrom(0)
    /\ rxbuf' = << >>
    /\ disturbed' = 0
    /\ prior' = "none"
    /\ UNCHANGED << variant, ant, hung, nrst, sub >>

\* The configurations with which init_async is run again.
RerunConfigs ==
    { DefaultConfig, CallerConfig(FALSE, FALSE, 868, 868000000, << 65535, 0, 0 >>) }

\* init_async is called again with the same Config on a driver whose earlier
\* init_async has returned, or whose earlier init_async the caller gave up at
\* an await point (the future was dropped), possibly while reset held the
\* reset line low.  The new call has its own history and budget.
CallInitAgain ==
    /\ op = "init" /\ conf \in RerunConfigs
    /\ prior' = IF pc = "done" THEN "returned"
                ELSE IF nrst = 0 THEN "abandoned in reset" ELSE "abandoned"
    /\ pc' = InitEntry(TRUE)
    /\ sub' = IF InitEntry(TRUE) = "reset" THEN "low" ELSE "call"
    /\ trace' = << >>
    /\ result' = "pending"
    /\ disturbed' = 0
    /\ UNCHANGED << variant, ant, hung, nrst, op, conf, args, status, rxbuf >>

Next ==
    \/ CallInit
    \/ ResetSetLow
    \/ ResetDelay
    \/ ResetSetHigh
    \/ InitCommand
    \/ WaitDelay
    \/ WaitBusyLow
    \/ WaitDio1High
    \/ CallSend
    \/ SendCommand
    \/ CallCommand
    \/ CommandTransaction
    \/ Finish

Spec == Init /\ [][Next]_vars

\* The driver as a running task: a call that has been started is driven to
\* its next step whenever it has one (the caller awaits the future, and the
\* code between two await points runs to completion).  The lines answer as
\* in Spec: a waited-on line reads the level that is not awaited at most
\* MaxDisturb times during a call.
DriverStep ==
    \/ ResetSetLow
    \/ ResetDelay
    \/ ResetSetHigh
    \/ InitCommand
    \/ WaitDelay
    \/ WaitBusyLow
    \/ WaitDio1High
    \/ SendCommand
    \/ CommandTransaction

SpecLive == Init /\ [][Next]_vars /\ WF_vars(DriverStep)

\* The driver used for single commands and the antenna switch only.
NextCommands ==
    \/ CallCommand
    \/ CommandTransaction
    \/ CallSetAntEnabled
    \/ AntPinSet
    \/ Finish

SpecCommands == Init /\ [][NextCommands]_vars

\* The driver with lines that may hang.
NextHung ==
    \/ Next
    \/ LineHangs
    \/ SampleHungLine

SpecHung == Init /\ [][NextHung]_vars

\* The driver used for bring-up only, init_async being run again at will.
NextRerun ==
    \/ CallInit
    \/ CallInitAgain
    \/ ResetSetLow
    \/ ResetDelay
    \/ ResetSetHigh
    \/ InitCommand
    \/ WaitDelay
    \/ WaitBusyLow
    \/ Finish

SpecRerun == Init /\ [][NextRerun]_vars

(***************************************************************************)
(* The byte-layout codec on its own: a caller picks one conversion and an  *)
(* input for it (Init), the conversion is applied once (the actions) and   *)
(* its value is left in result.  The driver's other variables stay as      *)
(* SX126x::new leaves them.                                                *)
(***************************************************************************)
\* rf_freq: u32 values around both ends of every band, the extremes and the
\* usual carrier frequencies (up to 2^31 - 1).
BandEdgesMHz == { 430, 440, 470, 510, 779, 787, 863, 870, 902, 928 }
RfFrequencies ==
    UNION { { m * 1000000 - 1, m * 1000000, m * 1000000 + 1,
              m * 1000000 + 999999, (m + 1) * 1000000 } : m \in BandEdgesMHz }
    \cup { 0, 1, 433920000, 490000000, 783000000, 868100000, 915000000,
           2147483647 }

Bytes == 0 .. 255
CalibFlags ==
    [rc64k : BOOLEAN, rc13m : BOOLEAN, pll : BOOLEAN, adc_pulse : BOOLEAN,
     adc_bulk_n : BOOLEAN, adc_bulk_p : BOOLEAN, image : BOOLEAN]
LoraModParamsValues ==
    [spread_factor : { SF5, SF6, SF7, SF8, SF9, SF10, SF11, SF12 },
     bandwidth : { BW7, BW10, BW15, BW20, BW31, BW41, BW62, BW125, BW250,
                   BW500 },
     coding_rate : { CR4_5, CR4_6, CR4_7, CR4_8 },
     low_data_rate_optimize : BOOLEAN]
LoRaPacketParamsValues ==
    [preamble_len : { 0, 1, 8, 255, 256, 4660, 65535 },
     header_type : { VarLen, FixedLen },
     payload_len : { 0, 1, 171, 255 },
     crc_type : { CrcOff, CrcOn },
     invert_iq : { IqStandard, IqInverted }]
Decoders ==
    { "LoRaSpreadFactor", "LoRaBandWidth", "LoraCodingRate", "PacketType" }
\* u32 values given to CadTimeout::new: around 2^16, around 2^24 and the
\* extremes (up to 2^31 - 1).
CadTimeouts == { 0, 1, 640, 65535, 65536, 16777215, 16777216, 2147483647 }

InitCodec ==
    /\ variant = "polling"
    /\ ant = 0
    /\ hung = { }
    /\ prior = "none"
    /\ nrst = 1
    /\ pc = "input"
    /\ sub = "none"
    /\ conf = DefaultConfig
    /\ trace = << >>
    /\ result = "none"
    /\ status = StatusFrom(0)
    /\ rxbuf = << >>
    /\ disturbed = 0
    /\ \/ op = "from_rf_frequency" /\ args \in [rf_freq : RfFrequencies]
       \/ op = "CalibParam::new" /\ args \in CalibFlags
       \/ op = "CalibParam::from" /\ args \in [val : Bytes]
       \/ op = "ModParams::from" /\ args \in LoraModParamsValues
       \/ op \in Decoders /\ args \in [value : Bytes]
       \/ op = "PacketParams::from" /\ args \in LoRaPacketParamsValues
       \/ op \in { "CadDetPeak::new", "CadDetMin::new" } /\ args \in [value : Bytes]
       \/ op = "CadTimeout::new" /\ args \in [value : CadTimeouts]

Converted(v) ==
    /\ pc' = "output"
    /\ result' = v
    /\ UNCHANGED << variant, ant, hung, prior, nrst, op, sub, conf, args, trace,
                    status, rxbuf, disturbed >>

\* CalibImageFreq::from_rf_frequency(rf_freq) and its two bytes.
ApplyFromRfFrequency ==
    /\ pc = "input" /\ op = "from_rf_frequency"
    /\ Converted(CalibImageFreqBytes(from_rf_frequency(args.rf_freq)))

\* CalibParam::new(..) and the byte it holds.
ApplyCalibParamNew ==
    /\ pc = "input" /\ op = "CalibParam::new"
    /\ Converted(CalibParam_new(args.rc64k, args.rc13m, args.pll,
                                args.adc_pulse, args.adc_bulk_n,
                                args.adc_bulk_p, args.image))

\* u8 -> CalibParam -> u8
ApplyCalibParamFrom ==
    /\ pc = "input" /\ op = "CalibParam::from"
    /\ Converted(CalibParamFrom(args.val))

\* LoraModParams -> ModParams, then the four getters on it.
ApplyModParamsFrom ==
    /\ pc = "input" /\ op = "ModParams::from"
    /\ LET mp == ModParamsFrom(args) IN
       Converted([inner |-> mp,
                  spread_factor |-> get_spread_factor(mp),
                  bandwidth |-> get_bandwidth(mp),
                  coding_rate |-> get_coding_rate(mp),
                  low_dr_opt |-> get_low_dr_opt(mp)])

\* One of the From<u8> conversions of the enums on a raw byte.
ApplyDecoder ==
    /\ pc = "input" /\ op \in Decoders
    /\ Converted(CASE op = "LoRaSpreadFactor" -> LoRaSpreadFactorFrom(args.value)
                   [] op = "LoRaBandWidth" -> LoRaBandWidthFrom(args.value)
                   [] op = "LoraCodingRate" -> LoraCodingRateFrom(args.value)
                   [] op = "PacketType" -> PacketTypeFrom(args.value))

\* LoRaPacketParams -> PacketParams, by value and by reference.
ApplyPacketParamsFrom ==
    /\ pc = "input" /\ op = "PacketParams::from"
    /\ Converted([by_value |-> PacketParamsFrom(args),
                  by_ref |-> PacketParamsFromRef(args)])

\* One of the constructors of op/cad.rs on a raw value.
ApplyCadNew ==
    /\ pc = "input" /\ op \in { "CadDetPeak::new", "CadDetMin::new", "CadTimeout::new" }
    /\ Converted(CASE op = "CadDetPeak::new" -> CadDetPeak_new(args.value)
                   [] op = "CadDetMin::new" -> CadDetMin_new(args.value)
                   [] op = "CadTimeout::new" -> CadTimeout_new(args.value))

NextCodec ==
    \/ ApplyFromRfFrequency
    \/ ApplyCalibParamNew
    \/ ApplyCalibParamFrom
    \/ ApplyModParamsFrom
    \/ ApplyDecoder
    \/ ApplyPacketParamsFrom
    \/ ApplyCadNew

SpecCodec == InitCodec /\ [][NextCodec]_vars

(***************************************************************************)
(* Reading the history.                                                    *)
(***************************************************************************)
\* A command transaction (as opposed to a delay or a pin event).
IsCmd(e) == e.kind \in { "write", "transfer" }
IsBusFailure(e) == e.kind \in { "write", "transfer", "delay" } /\ ~e.ok
IsBusyDelay(e) == e.kind = "delay" /\ e.data = << BusyDelayNs >>
Cmds(tr) == SelectSeq(tr, IsCmd)
CmdData(tr) == [i \in 1..Len(Cmds(tr)) |-> Cmds(tr)[i].data]
Opcodes(tr) == [i \in 1..Len(Cmds(tr)) |-> Cmds(tr)[i].data[1]]
IsPrefix(a, b) == Len(a) <= Len(b) /\ a = SubSeq(b, 1, Len(a))
CountOpcode(tr, opc) == Cardinality({ i \in 1..Len(tr) : IsCmd(tr[i]) /\ tr[i].data[1] = opc })
InitDone == op = "init" /\ pc = "done"
SendDone == op = "send" /\ pc = "done"

\* The opcodes of the bring-up sequence in the order of the specification,
\* the two optional steps included when their option is present.
ExpectedInitOpcodes(c) ==
    << 128, 138, 134 >> \o (IF c.tcxo_opts.some THEN << 151 >> ELSE << >>)
    \o << 137, 152, 149, 142, 143, 139 >>
    \o (IF c.packet_params.some THEN << 140 >> ELSE << >>)
    \o << 8, 157, 13 >>

\* C1: init_async issues its steps in the fixed order: the hardware reset
\* first and once, then SetStandby(STDBY_RC), SetPacketType, SetRfFrequency,
\* [SetDio3AsTcxoCtrl], Calibrate, CalibrateImage, SetPaConfig, SetTxParams,
\* SetBufferBaseAddress(0,0), SetModulationParams, [SetPacketParams],
\* SetDioIrqParams, SetDio2AsRfSwitchCtrl(enabled), WriteRegister(sync word):
\* at every moment the commands issued so far are a prefix of that list, and
\* on return they are the whole list.
C1_InitOrder ==
    op = "init" =>
      /\ IsPrefix(Opcodes(trace), ExpectedInitOpcodes(conf))
      /\ trace # << >> => trace[1] = Ev("nrst", << 0 >>, TRUE)
      /\ \A i \in 1..Len(trace) :
           trace[i].kind = "nrst" => \A j \in 1..i : ~IsCmd(trace[j])
      /\ Cardinality({ i \in 1..Len(trace) : trace[i] = Ev("nrst", << 0 >>, TRUE) }) <= 1
      /\ pc = "done" =>
           /\ Opcodes(trace) = ExpectedInitOpcodes(conf)
           /\ CmdData(trace)[1] = << 128, 0 >>
           /\ \E i \in 1..Len(Cmds(trace)) : CmdData(trace)[i] = << 143, 0, 0 >>
           /\ \E i \in 1..Len(Cmds(trace)) : CmdData(trace)[i] = << 157, 1 >>
           /\ SubSeq(CmdData(trace)[Len(Cmds(trace))], 1, 3) = << 13, 7, 64 >>

\* C1 witness: a bring-up with both optional blocks has returned after all
\* fourteen commands.
C1_Witness ==
    /\ InitDone /\ conf.tcxo_opts.some /\ conf.packet_params.some
    /\ Len(Cmds(trace)) = 14

\* C2 (as claimed): a bus failure at a step of init_async aborts it: no
\* command is issued after the failed transaction and init_async does not
\* return success.
C2_InitAbortsOnBusFailure ==
    op = "init" =>
      \A i \in 1..Len(trace) :
        IsBusFailure(trace[i]) =>
          /\ \A j \in (i + 1)..Len(trace) : ~IsCmd(trace[j])
          /\ pc = "done" => result # "Ok"

\* The history with the step of opcode opc removed: its command and what
\* follows it up to the next command (its busy-wait).
RECURSIVE DropStep(_, _, _)
DropStep(tr, opc, dropping) ==
    IF tr = << >> THEN << >>
    ELSE IF IsCmd(Head(tr))
         THEN IF Head(tr).data[1] = opc
              THEN DropStep(Tail(tr), opc, TRUE)
              ELSE << Head(tr) >> \o DropStep(Tail(tr), opc, FALSE)
         ELSE IF dropping
              THEN DropStep(Tail(tr), opc, TRUE)
              ELSE << Head(tr) >> \o DropStep(Tail(tr), opc, FALSE)

\* A configuration with both optional blocks absent.
NoOpt(c) == [c EXCEPT !.tcxo_opts = None, !.packet_params = None]

MandatorySteps ==
    << "set_standby", "set_packet_type", "set_rf_frequency", "calibrate",
       "calibrate_image", "set_pa_config", "set_tx_params",
       "set_buffer_base_address", "set_mod_params", "set_dio_irq_params",
       "set_dio2_as_rf_switch_ctrl", "set_sync_word" >>

BusyWaitEvents == << Ev("delay", << BusyDelayNs >>, TRUE), Ev("busy", << 0 >>, TRUE) >>

RECURSIVE MandatoryTrace(_, _)
MandatoryTrace(c, i) ==
    IF i > Len(MandatorySteps) THEN << >>
    ELSE << Ev(InitCmd(MandatorySteps[i], c).kind, InitCmd(MandatorySteps[i], c).data, TRUE) >>
         \o BusyWaitEvents \o MandatoryTrace(c, i + 1)

\* The undisturbed history of a bring-up without optional blocks.
BareInitTrace(c) ==
    << Ev("nrst", << 0 >>, TRUE), Ev("delay", << ResetDelayNs >>, TRUE),
       Ev("nrst", << 1 >>, TRUE) >> \o BusyWaitEvents \o MandatoryTrace(NoOpt(c), 1)

\* Position of the command of opcode opc among the commands (0: absent).
CmdIndex(tr, opc) ==
    IF \E i \in 1..Len(Cmds(tr)) : Opcodes(tr)[i] = opc
    THEN CHOOSE i \in 1..Len(Cmds(tr)) : Opcodes(tr)[i] = opc
    ELSE 0

\* C3: the history of init_async with an optional block absent is the
\* history with it present minus exactly that step and its busy-wait:
\* removing the SetDio3AsTcxoCtrl and SetPacketParams steps from any finished
\* bring-up leaves the commands (and, undisturbed, the whole history) of the
\* bring-up that has neither block; SetDio3AsTcxoCtrl occurs exactly when
\* TCXO options are present, right after SetRfFrequency, and SetPacketParams
\* exactly when packet parameters are present, right after
\* SetModulationParams, each an event triple command, delay, busy low.
C3_OptionalSteps ==
    InitDone =>
      LET stripped == DropStep(DropStep(trace, 151, FALSE), 140, FALSE)
          bare == BareInitTrace(conf)
          nopt == (IF conf.tcxo_opts.some THEN 1 ELSE 0)
                  + (IF conf.packet_params.some THEN 1 ELSE 0)
      IN /\ CmdData(stripped) = CmdData(bare)
         /\ CountOpcode(trace, 151) = (IF conf.tcxo_opts.some THEN 1 ELSE 0)
         /\ CountOpcode(trace, 140) = (IF conf.packet_params.some THEN 1 ELSE 0)
         /\ conf.tcxo_opts.some => CmdIndex(trace, 151) = CmdIndex(trace, 134) + 1
         /\ conf.packet_params.some => CmdIndex(trace, 140) = CmdIndex(trace, 139) + 1
         /\ disturbed = 0 =>
              /\ stripped = bare
              /\ Len(trace) = Len(bare) + 3 * nopt

\* C3 witness: an undisturbed bring-up without TCXO options but with packet
\* parameters has returned.
C3_Witness ==
    /\ InitDone /\ disturbed = 0
    /\ ~conf.tcxo_opts.some /\ conf.packet_params.some
    /\ CountOpcode(trace, 140) = 1 /\ CountOpcode(trace, 151) = 0

\* C4: in init_async every command transaction, and the hardware reset, is
\* followed by one busy-wait before the next command: the event after a
\* command or after the end of reset is the delay that opens
\* wait_on_busy_async, that delay occurs nowhere else, after it the busy line
\* is sampled until it reads low (or the wait is cut short by a failed delay
\* or a failed read), and a command is only ever preceded by the end of such
\* a wait.
C4_BusyWaitAfterEachCommand ==
    op = "init" =>
      \A i \in 1..(Len(trace) - 1) :
        LET e == trace[i]
            n == trace[i + 1]
            resetEnd == \/ e = Ev("nrst", << 1 >>, TRUE)
                        \/ e = Ev("delay", << ResetDelayNs >>, FALSE)
            waitEnd == \/ (IsBusyDelay(e) /\ ~e.ok)
                       \/ (e.kind = "busy" /\ (~e.ok \/ e.data = << 0 >>))
        IN /\ (IsCmd(e) \/ resetEnd) => IsBusyDelay(n)
           /\ IsBusyDelay(n) => (IsCmd(e) \/ resetEnd)
           /\ (IsBusyDelay(e) /\ e.ok) => n.kind = "busy"
           /\ (e.kind = "busy" /\ e.ok /\ e.data = << 1 >>) => n.kind = "busy"
           /\ n.kind = "busy" => (e.kind = "busy" \/ (IsBusyDelay(e) /\ e.ok))
           /\ IsCmd(n) => waitEnd

\* C4 witness: a bring-up has returned in which the busy line was read high
\* once before it read low.
C4_Witness ==
    /\ InitDone
    /\ \E i \in 1..(Len(trace) - 1) :
         /\ trace[i] = Ev("busy", << 1 >>, TRUE)
         /\ trace[i + 1] = Ev("busy", << 0 >>, TRUE)
    /\ Len(Cmds(trace)) >= 12

\* The history as a sequence of operations: consecutive samples of one
\* line form one wait on that line, whatever each sample read.
RECURSIVE WaitOps(_)
WaitOps(tr) ==
    IF tr = << >> THEN << >>
    ELSE LET e == Head(tr)
             rest == WaitOps(Tail(tr))
         IN IF e.kind \in { "busy", "dio1" }
            THEN IF rest # << >> /\ Head(rest) = Ev(e.kind, << >>, TRUE)
                 THEN rest
                 ELSE << Ev(e.kind, << >>, TRUE) >> \o rest
            ELSE << e >> \o rest

\* The sequence the specification gives for a successful send.
ExpectedSendTrace(a) ==
    << Ev("write", << 14, 0 >> \o a.data, TRUE),
       Ev("write", << 140, a.preamble_len \div 256, a.preamble_len % 256, 0,
                      Len(a.data), a.crc_type, 0, 0, 0, 0 >>, TRUE),
       Ev("transfer", << 131 >> \o RxTxTimeoutBytes(a.timeout), TRUE),
       Ev("delay", << BusyDelayNs >>, TRUE),
       Ev("busy", << 0 >>, TRUE),
       Ev("dio1", << 1 >>, TRUE),
       Ev("write", << 2, 255, 255 >>, TRUE) >>

C6_StatusFromChipAnswer ==
    (SendDone /\ result = "Ok") =>
      \E i \in 1..Len(rxbuf) : status = StatusFrom(rxbuf[i])

\* The error write_bytes_async returns for a failed event of its history.
SendErrorKind(e) ==
    CASE e.kind = "write" -> "Write"
      [] e.kind = "transfer" -> "Transfer"
      [] OTHER -> "BusError"

\* An event at which a step of write_bytes_async returned Err: a failed bus
\* transaction (command or busy-wait delay), or a failed read of the line by
\* a wait that reports it (the event-driven AnyWait).
SendStepFailed(e) ==
    \/ IsBusFailure(e)
    \/ (e.kind \in { "busy", "dio1" } /\ ~e.ok /\ variant = "event")

\* An event at which the wait on `line` returned Ok.
WaitReturnedOk(e, line, awaited) ==
    /\ e.kind = line
    /\ (e.ok /\ e.data = << awaited >>) \/ (~e.ok /\ variant = "polling")

\* C7: a failed step of write_bytes_async ends the call at once with that
\* step's error: a failed event is the last event of the history, the call
\* has returned the error of its kind, an error result is always due to the
\* last event, the commands issued are a prefix of WriteBuffer,
\* SetPacketParams, SetTx, ClearIrqStatus (no compensating command), and
\* ClearIrqStatus directly follows a DIO1 wait that returned Ok, itself
\* directly after a busy-wait that returned Ok.
C7_SendFailsFast ==
    op = "send" =>
      /\ \A i \in 1..Len(trace) :
           SendStepFailed(trace[i]) =>
             /\ i = Len(trace)
             /\ pc = "done"
             /\ result = SendErrorKind(trace[i])
      /\ (pc = "done" /\ result # "Ok") =>
           /\ trace # << >>
           /\ SendStepFailed(trace[Len(trace)])
      /\ IsPrefix(Opcodes(trace), << 14, 140, 131, 2 >>)
      /\ \A i \in 1..Len(trace) :
           (IsCmd(trace[i]) /\ trace[i].data[1] = 2) =>
             /\ i > 2
             /\ WaitReturnedOk(trace[i - 1], "dio1", 1)
             /\ \E j \in 1..(i - 2) :
                  /\ WaitReturnedOk(trace[j], "busy", 0)
                  /\ \A k \in (j + 1)..(i - 1) : trace[k].kind = "dio1"

\* C7 witness: a send has returned BusError because the wait on DIO1
\* failed, after SetTx was issued and without ClearIrqStatus.
C7_Witness ==
    /\ SendDone /\ result = "BusError"
    /\ trace[Len(trace)] = Ev("dio1", << >>, FALSE)
    /\ CountOpcode(trace, 131) = 1 /\ CountOpcode(trace, 2) = 0

\* C8 (as claimed): write_bytes_async never issues SetPacketParams with a
\* payload-length byte different from the number of bytes it wrote to the
\* TX buffer.
C8_PayloadLenMatchesBuffer ==
    op = "send" =>
      \A i \in 1..Len(trace) :
        (IsCmd(trace[i]) /\ trace[i].data[1] = 140) =>
          trace[i].data[5] = Len(trace[1].data) - 2

\* C9 (as claimed): the SetDioIrqParams command of init_async carries the
\* DIO1 mask in all three per-pin fields and as the global IRQ mask.
C9_SameMaskOnAllPins ==
    op = "init" =>
      \A i \in 1..Len(trace) :
        (IsCmd(trace[i]) /\ trace[i].data[1] = 8) =>
          trace[i].data = << 8 >> \o U16BE(conf.dio1_irq_mask) \o U16BE(conf.dio1_irq_mask)
                                 \o U16BE(conf.dio1_irq_mask) \o U16BE(conf.dio1_irq_mask)

\* C9 (amended): the SetDioIrqParams command of init_async carries the
\* configuration's DIO1 mask as the global IRQ mask and as the DIO1 mask,
\* dio2_irq_mask as the DIO2 mask and dio3_irq_mask as the DIO3 mask.
C9_EachPinItsOwnMask ==
    op = "init" =>
      \A i \in 1..Len(trace) :
        (IsCmd(trace[i]) /\ trace[i].data[1] = 8) =>
          trace[i].data = << 8 >> \o U16BE(conf.dio1_irq_mask) \o U16BE(conf.dio1_irq_mask)
                                 \o U16BE(conf.dio2_irq_mask) \o U16BE(conf.dio3_irq_mask)

\* C9 witness: a bring-up whose three masks differ has issued SetDioIrqParams.
C9_Witness ==
    /\ op = "init" /\ CountOpcode(trace, 8) = 1
    /\ conf.dio2_irq_mask # conf.dio1_irq_mask
    /\ conf.dio3_irq_mask # conf.dio2_irq_mask

\* C10 (as claimed): the two parameter bytes of the CalibrateImage command of
\* init_async are the pair of the band that contains the configuration's
\* target frequency in Hz (the 902-928 pair when it lies in no band).
C10_CalibImageOfTargetBand ==
    op = "init" =>
      \A i \in 1..Len(trace) :
        (IsCmd(trace[i]) /\ trace[i].data[1] = 152) =>
          trace[i].data = << 152 >> \o CalibImageFreqBytes(from_rf_frequency(conf.target_hz))

(***************************************************************************)
(* The frequency register value.                                           *)
(***************************************************************************)
\* (q + r/x) * 2^k rounded to the nearest integer (half up), by doubling.
RECURSIVE ScaleLoop(_, _, _, _)
ScaleLoop(q, r, x, k) ==
    IF k = 0
    THEN IF 2 * r >= x THEN q + 1 ELSE q
    ELSE ScaleLoop(2 * q + (IF 2 * r >= x THEN 1 ELSE 0), (2 * r) % x, x, k - 1)

\* round(f * 2^25 / x) in exact integer arithmetic (f / x < 64).
RfRegisterRounded(f, x) == ScaleLoop(f \div x, f % x, x, 25)

\* The SetRfFrequency commands of a history.
RfFrequencyCmds(tr) == { i \in 1..Len(tr) : IsCmd(tr[i]) /\ tr[i].data[1] = 134 }

\* C11 (as claimed): the register value calc_rf_freq computes for a target
\* frequency and the 32 MHz crystal is round(frequency_hz * 2^25 / xtal_hz),
\* whether the pair is given in Hz or in MHz, and SetRfFrequency sends that
\* value as four big-endian bytes after the opcode 0x86.
C11_RegisterIsRoundedQuotient ==
    op = "init" =>
      \A i \in RfFrequencyCmds(trace) :
        /\ trace[i].data = << 134 >> \o U32BE(RfRegisterRounded(conf.target_hz, 32000000))
        /\ conf.rf_freq = RfRegisterRounded(conf.target_hz, 32000000)
        /\ calc_rf_freq(conf.target_hz, 1, 32000000, 1)
             = RfRegisterRounded(conf.target_hz, 32000000)

C13_RfFreqDerivedFromTarget ==
    op = "init" =>
      \/ conf.rf_freq = RfRegisterRounded(conf.rf_frequency, 32000000)
      \/ /\ conf.rf_frequency < 2048
         /\ conf.rf_freq = RfRegisterRounded(conf.rf_frequency, 32)

(***************************************************************************)
(* Running init_async again.                                               *)
(***************************************************************************)
\* The undisturbed history of init_async from step `step` on.
RECURSIVE InitTraceFrom(_, _)
InitTraceFrom(step, c) ==
    IF step = "return" THEN << >>
    ELSE << Ev(InitCmd(step, c).kind, InitCmd(step, c).data, TRUE) >>
         \o BusyWaitEvents \o InitTraceFrom(InitNextStep(step, c), c)

\* The undisturbed history of a first init_async on a driver just built.
FirstRunTrace(c) ==
    << Ev("nrst", << 0 >>, TRUE), Ev("delay", << ResetDelayNs >>, TRUE),
       Ev("nrst", << 1 >>, TRUE) >> \o BusyWaitEvents \o InitTraceFrom("set_standby", c)

\* C14: init_async run again with the same configuration, after an earlier
\* run that returned or was given up at any step (the reset line possibly
\* left low), does what a first run on a fresh driver does: its first event
\* is the reset line pulled low, the commands it issues are, byte for byte,
\* those of a first run (a prefix while it runs, all of them when it
\* returns), it returns Ok, and undisturbed its whole history is that of a
\* first run and it leaves the reset line high.
C14_RerunSameAsFirstRun ==
    (op = "init" /\ prior # "none") =>
      /\ trace # << >> => trace[1] = Ev("nrst", << 0 >>, TRUE)
      /\ IsPrefix(CmdData(trace), CmdData(FirstRunTrace(conf)))
      /\ pc = "done" =>
           /\ CmdData(trace) = CmdData(FirstRunTrace(conf))
           /\ result = "Ok"
           /\ disturbed = 0 => (trace = FirstRunTrace(conf) /\ nrst = 1)

\* C14 witness: an undisturbed init_async has returned that was started on
\* a driver whose earlier init_async was given up while the reset line was low.
C14_Witness ==
    /\ op = "init" /\ pc = "done" /\ disturbed = 0
    /\ prior = "abandoned in reset"
    /\ Len(Cmds(trace)) = 14

(***************************************************************************)
(* The two wait variants.                                                  *)
(***************************************************************************)
\* C15 (as claimed): with the polling variant a wait whose sample of the
\* line failed returns a pin-level failure: in write_bytes_async, where the
\* result of each wait is propagated, the failed sample is the last event
\* and the call has returned the error.
C15_PollingWaitReportsReadFailure ==
    (op = "send" /\ variant = "polling") =>
      \A i \in 1..Len(trace) :
        (trace[i].kind \in { "busy", "dio1" } /\ ~trace[i].ok) =>
          /\ i = Len(trace)
          /\ pc = "done"
          /\ result = "BusError"

\* What write_bytes_async(a) returns when its waits are backed by variant v
\* and the bus and the lines answer as recorded in the history tr, read from
\* event i on with the call at `step` (inDelay: at the delay that opens the
\* busy-wait); "running" when the call needs an answer tr does not hold.
RECURSIVE SendReplay(_, _, _, _, _, _)
SendReplay(v, a, tr, i, step, inDelay) ==
    IF step = "return" THEN "Ok"
    ELSE IF i > Len(tr) THEN "running"
    ELSE LET e == tr[i]
             next == SendAfter(step, TRUE)
         IN IF step \in SendCmdSteps
            THEN IF e.ok
                 THEN SendReplay(v, a, tr, i + 1, next, next = "wait_on_busy")
                 ELSE SendErr(step, SendCmd(step, a).err)
            ELSE IF inDelay
            THEN IF e.ok
                 THEN SendReplay(v, a, tr, i + 1, step, FALSE)
                 ELSE SendErr(step, "Output")
            ELSE IF ~e.ok
            THEN IF AnyWaitOnReadError(v)
                 THEN SendReplay(v, a, tr, i + 1, next, FALSE)
                 ELSE SendErr(step, "Input")
            ELSE IF e.data = << IF step = "wait_on_busy" THEN 0 ELSE 1 >>
            THEN SendReplay(v, a, tr, i + 1, next, FALSE)
            ELSE SendReplay(v, a, tr, i + 1, step, FALSE)

\* C16 (as claimed): for the same arguments and the same answers of the bus
\* and of the busy and DIO1 lines, write_bytes_async returns the same result
\* whichever wait variant backs the lines.
C16_VariantsInterchangeable ==
    SendDone =>
      \A v \in Variants :
        SendReplay(v, args, trace, 1, "write_buffer", FALSE) = result

(***************************************************************************)
(* Hung lines.                                                             *)
(***************************************************************************)
\* The call is in a wait on a line that is hung.
WaitingOnHungLine == sub = "wait_pin" /\ WaitedLine(pc) \in hung

\* C17: a call that waits on a hung line (the busy line never reading low,
\* the DIO1 line never reading high, reads succeeding) stays in that wait:
\* no step of the driver takes it out of the wait, returns a result or
\* issues a command (ClearIrqStatus after the DIO1 wait included); there is
\* no timeout and no cancellation.
C17_HungLineBlocks ==
    [][ WaitingOnHungLine =>
          /\ WaitingOnHungLine'
          /\ pc' = pc /\ op' = op
          /\ result' = result /\ result = "pending"
          /\ Cmds(trace') = Cmds(trace) ]_vars

\* C17 witness: write_bytes_async has issued SetTx, passed the busy-wait
\* and is sampling a hung DIO1 line; ClearIrqStatus has not been issued.
C17_Witness ==
    /\ op = "send" /\ WaitingOnHungLine /\ "dio1" \in hung
    /\ trace[Len(trace)] = Ev("dio1", << 0 >>, TRUE)
    /\ CountOpcode(trace, 131) = 1 /\ CountOpcode(trace, 2) = 0

(***************************************************************************)
(* The single-command operations.                                          *)
(***************************************************************************)
CommandDone == op = "command" /\ pc = "done"

\* C18: a single-command operation issues exactly one bus transaction per
\* call and never retries: while it runs nothing has been returned, when it
\* has returned its history is that one transaction, and the result is Ok
\* with the value decoded from what the transaction received if the
\* transaction succeeded, and a bus-error value (SpiError::Write or
\* SpiError::Transfer) if it failed.
C18_OneTransactionNoRetry ==
    op = "command" =>
      /\ Len(trace) <= 1
      /\ pc # "done" => (trace = << >> /\ result = "pending")
      /\ pc = "done" =>
           /\ Len(trace) = 1
           /\ trace[1].kind = CommandCmd(args.name, args.arg).kind
           /\ trace[1].data = CommandCmd(args.name, args.arg).data
           /\ trace[1].ok =>
                /\ result = "Ok"
                /\ status = CommandValue(args.name, args.arg, rxbuf)
           /\ ~trace[1].ok => result \in { "Write", "Transfer" }

\* C18 witness: get_irq_status has returned SpiError::Transfer after its one
\* transaction failed.
C18_Witness ==
    /\ CommandDone /\ args.name = "get_irq_status"
    /\ Len(trace) = 1 /\ ~trace[1].ok
    /\ result = "Transfer"

\* C19 (as claimed): the transaction of read_register writes the opcode
\* 0x1D, the start address as two big-endian bytes and one dummy byte before
\* it reads the caller's N bytes.
C19_ReadRegisterWritesDummyByte ==
    (op = "command" /\ args.name = "read_register") =>
      \A i \in 1..Len(trace) :
        trace[i].data = << 29, (args.arg[1] \div 256) % 256, args.arg[1] % 256, 0 >>

\* Number of parameter bytes the specification gives for a command opcode
\* (-1: not fixed).
ParamBytes(opc) ==
    CASE opc = 128 -> 1 [] opc = 134 -> 4 [] opc = 137 -> 1 [] opc = 152 -> 2
      [] opc = 139 -> 8 [] opc = 140 -> 9 [] opc = 142 -> 2 [] opc = 143 -> 2
      [] opc = 149 -> 4 [] opc = 151 -> 4 [] opc = 8 -> 8 [] opc = 157 -> 1
      [] opc = 2 -> 2 [] opc = 131 -> 3 [] opc = 130 -> 3
      [] OTHER -> 0 - 1

Hi(v) == (v \div 256) % 256
Lo(v) == v % 256

\* The bytes the specification gives for the transaction of an operation
\* called with arguments a (<< >>: not among the listed commands).
ExpectedLayout(name, a) ==
    CASE name = "set_standby" -> << 128, a[1] >>
      [] name = "set_rf_frequency" ->
            << 134, (a[1] \div 16777216) % 256, (a[1] \div 65536) % 256, Hi(a[1]), Lo(a[1]) >>
      [] name = "calibrate" -> << 137, a[1] >>
      [] name = "calibrate_image" -> << 152, Hi(a[1]), Lo(a[1]) >>
      [] name = "set_mod_params" -> << 139 >> \o a[1]
      [] name = "set_packet_params" -> << 140 >> \o a[1]
      [] name = "set_tx_params" -> << 142 >> \o a[1]
      [] name = "set_buffer_base_address" -> << 143, a[1], a[2] >>
      [] name = "set_pa_config" -> << 149 >> \o a[1]
      [] name = "set_dio3_as_tcxo_ctrl" -> << 151, a[1] >> \o a[2]
      [] name = "set_dio_irq_params" ->
            << 8, Hi(a[1]), Lo(a[1]), Hi(a[2]), Lo(a[2]), Hi(a[3]), Lo(a[3]),
               Hi(a[4]), Lo(a[4]) >>
      [] name = "set_dio2_as_rf_switch_ctrl" -> << 157, IF a[1] THEN 1 ELSE 0 >>
      [] name = "write_register" -> << 13, Hi(a[1]), Lo(a[1]) >> \o a[2]
      [] name = "set_sync_word" -> << 13, 7, 64, Hi(a[1]), Lo(a[1]) >>
      [] name = "clear_irq_status" -> << 2, Hi(a[1]), Lo(a[1]) >>
      [] name = "set_tx" -> << 131, (a[1] \div 65536) % 256, Hi(a[1]), Lo(a[1]) >>
      [] name = "set_rx" -> << 130, (a[1] \div 65536) % 256, Hi(a[1]), Lo(a[1]) >>
      [] OTHER -> << >>

\* C20: every command transaction, in init_async, write_bytes_async or
\* called on its own, starts with its opcode and carries the stated number
\* of parameter bytes (WriteRegister: a 2-byte address, then data); called
\* on its own with given arguments its bytes are the opcode followed by the
\* parameters, numbers most significant byte first; GetIrqStatus (0x12)
\* returns its second and third received bytes as a big-endian number and
\* GetDeviceErrors (0x17) its third and fourth as a little-endian number.
C20_CommandLayouts ==
    /\ \A i \in 1..Len(trace) :
         IsCmd(trace[i]) =>
           /\ ParamBytes(trace[i].data[1]) >= 0 =>
                Len(trace[i].data) = 1 + ParamBytes(trace[i].data[1])
           /\ trace[i].data[1] = 13 => Len(trace[i].data) >= 3
    /\ (op = "command" /\ trace # << >>) =>
         /\ ExpectedLayout(args.name, args.arg) # << >> =>
              trace[1].data = ExpectedLayout(args.name, args.arg)
         /\ (args.name = "get_irq_status" /\ trace[1].ok) =>
              /\ trace[1].data = << 18 >> /\ Len(rxbuf) = 3
              /\ status = IrqStatusFrom(256 * rxbuf[2] + rxbuf[3])
         /\ (args.name = "get_device_errors" /\ trace[1].ok) =>
              /\ trace[1].data[1] = 23 /\ Len(rxbuf) = 4
              /\ status = DeviceErrorsFrom(rxbuf[3] + 256 * rxbuf[4])

\* C20 witness: set_rf_frequency(0x12345678) has been issued on its own.
C20_Witness ==
    /\ CommandDone /\ args.name = "set_rf_frequency"
    /\ trace[1] = Ev("write", << 134, 18, 52, 86, 120 >>, TRUE)

(***************************************************************************)
(* Claims on the byte-layout codec (specification SpecCodec).              *)
(***************************************************************************)
ConvertedBy(name) == pc = "output" /\ op = name

\* The five bands of the lookup table with their byte pairs.
Bands ==
    { [lo |-> 430, hi |-> 440, pair |-> << 107, 111 >>],
      [lo |-> 470, hi |-> 510, pair |-> << 117, 129 >>],
      [lo |-> 779, hi |-> 787, pair |-> << 193, 197 >>],
      [lo |-> 863, hi |-> 870, pair |-> << 215, 219 >>],
      [lo |-> 902, hi |-> 928, pair |-> << 225, 233 >> ] }

\* C21 (as stated): from_rf_frequency maps every frequency to one of the five
\* pairs; a frequency f with lo MHz <= f <= hi MHz for one of the bands maps
\* to that band's pair, and every frequency outside all five bands maps to
\* the 902-928 pair (0xE1, 0xE9).
C21_OutsideBandsDefault ==
    ConvertedBy("from_rf_frequency") =>
        LET f == args.rf_freq
            InBand(b) == b.lo * 1000000 <= f /\ f <= b.hi * 1000000
        IN /\ result \in { b.pair : b \in Bands }
           /\ \A b \in Bands : InBand(b) => result = b.pair
           /\ (\A b \in Bands : ~InBand(b)) => result = << 225, 233 >>

\* C21 (amended): from_rf_frequency maps every frequency to one of the five
\* pairs; the bands are taken on whole megahertz, so a frequency f with
\* lo MHz <= f < (hi + 1) MHz maps to that band's pair, and every other
\* frequency maps to the 902-928 pair (0xE1, 0xE9).
C21_WholeMHzBands ==
    ConvertedBy("from_rf_frequency") =>
        LET f == args.rf_freq
            InBand(b) == b.lo * 1000000 <= f /\ f < (b.hi + 1) * 1000000
        IN /\ result \in { b.pair : b \in Bands }
           /\ \A b \in Bands : InBand(b) => result = b.pair
           /\ (\A b \in Bands : ~InBand(b)) => result = << 225, 233 >>

\* C21 witness: a frequency between 440 and 441 MHz has been looked up and
\* mapped to the 430-440 pair.
C21_Witness ==
    /\ ConvertedBy("from_rf_frequency")
    /\ args.rf_freq = 440999999
    /\ result = << 107, 111 >>

Bit(v, i) == (v \div Pow2(i)) % 2
FlagBit(flags, i) ==
    BoolU8(CASE i = 0 -> flags.rc64k
             [] i = 1 -> flags.rc13m
             [] i = 2 -> flags.pll
             [] i = 3 -> flags.adc_pulse
             [] i = 4 -> flags.adc_bulk_n
             [] i = 5 -> flags.adc_bulk_p
             [] i = 6 -> flags.image)

\* C22: bit 7 of the CalibParam byte is 0 for every combination of the seven
\* flags of CalibParam::new and for every input byte of From<u8>; a byte with
\* bit 7 clear converted to a CalibParam and back is the same byte; flag i of
\* new sets exactly bit i (rc64k = 0 .. image = 6).
C22_CalibParamBits ==
    /\ ConvertedBy("CalibParam::new") =>
           /\ Bit(result, 7) = 0
           /\ result \in Bytes
           /\ \A i \in 0 .. 6 : Bit(result, i) = FlagBit(args, i)
    /\ ConvertedBy("CalibParam::from") =>
           /\ Bit(result, 7) = 0
           /\ result \in Bytes
           /\ Bit(args.val, 7) = 0 => result = args.val

\* C22 witness: a byte with bit 7 set has been converted and came out with
\* its other seven bits only.
C22_Witness ==
    /\ ConvertedBy("CalibParam::from")
    /\ args.val = 213
    /\ result = 85

\* C23: for every defined spreading factor, bandwidth, coding rate and
\* low-data-rate flag, encoding a LoraModParams into ModParams and decoding
\* with get_spread_factor, get_bandwidth, get_coding_rate and get_low_dr_opt
\* yields the original values.
C23_ModParamsRoundTrip ==
    ConvertedBy("ModParams::from") =>
        /\ result.spread_factor = Decoded(args.spread_factor)
        /\ result.bandwidth = Decoded(args.bandwidth)
        /\ result.coding_rate = Decoded(args.coding_rate)
        /\ result.low_dr_opt = args.low_data_rate_optimize

\* C23 witness: SF12, 41.67 kHz, CR 4/8 with the low-data-rate flag has
\* been encoded and read back.
C23_Witness ==
    /\ ConvertedBy("ModParams::from")
    /\ args = [spread_factor |-> SF12, bandwidth |-> BW41,
               coding_rate |-> CR4_8, low_data_rate_optimize |-> TRUE]
    /\ result.bandwidth = Decoded(BW41)
    /\ result.low_dr_opt

\* The bytes that have an enumerant, per decoder.
DefinedBytes(decoder) ==
    CASE decoder = "LoRaSpreadFactor" -> 5 .. 12
      [] decoder = "LoRaBandWidth" -> (0 .. 6) \cup { 8, 9, 10 }
      [] decoder = "LoraCodingRate" -> 1 .. 4
      [] decoder = "PacketType" -> { 0, 1 }

\* C24: decoding a byte that has no enumerant always fails (panics) and
\* never yields a value: bytes outside 0x05..0x0C for the spreading factor,
\* outside 0x00..0x06, 0x08, 0x09, 0x0A for the bandwidth, outside
\* 0x01..0x04 for the coding rate and outside 0x00, 0x01 for the packet type.
C24_UndefinedByteFails ==
    (pc = "output" /\ op \in Decoders) =>
        (args.value \notin DefinedBytes(op) => result.panicked)

\* C24 witness: the byte 7, which lies between the bandwidth codes, has been
\* given to the bandwidth decoder, which panicked.
C24_Witness ==
    /\ ConvertedBy("LoRaBandWidth")
    /\ args.value = 7
    /\ result.panicked

\* C25: the encoded LoRa packet-parameter block is the 9 bytes [preamble
\* high, preamble low, header type, payload length, CRC type, invert-IQ, 0,
\* 0, 0]; encoding a value and encoding a reference to it give the same
\* block.
C25_PacketParamsLayout ==
    ConvertedBy("PacketParams::from") =>
        /\ result.by_value =
               << args.preamble_len \div 256, args.preamble_len % 256,
                  args.header_type, args.payload_len, args.crc_type,
                  args.invert_iq, 0, 0, 0 >>
        /\ Len(result.by_value) = 9
        /\ result.by_ref = result.by_value
        /\ \A i \in 7 .. 9 : result.by_value[i] = 0 /\ result.by_ref[i] = 0

\* C25 witness: a preamble length with two different bytes (0x1234) and the
\* largest payload length have been encoded.
C25_Witness ==
    /\ ConvertedBy("PacketParams::from")
    /\ args.preamble_len = 4660 /\ args.payload_len = 255
    /\ args.header_type = FixedLen /\ args.crc_type = CrcOn
    /\ args.invert_iq = IqInverted
    /\ result.by_ref = << 18, 52, 1, 255, 1, 1, 0, 0, 0 >>

\* C26: the encoded LoRa modulation-parameter block is the 8 bytes
\* [spreading factor, bandwidth code, coding rate, low-data-rate flag (0 or
\* 1), 0, 0, 0, 0]: byte 0 is in 5..12, byte 1 is one of the 10 bandwidth
\* codes, byte 2 is in 1..4, and the last four bytes are 0.
C26_ModParamsLayout ==
    ConvertedBy("ModParams::from") =>
        LET b == result.inner IN
        /\ Len(b) = 8
        /\ b[1] = args.spread_factor /\ b[1] \in 5 .. 12
        /\ b[2] = args.bandwidth /\ b[2] \in (0 .. 6) \cup { 8, 9, 10 }
        /\ b[3] = args.coding_rate /\ b[3] \in 1 .. 4
        /\ b[4] = (IF args.low_data_rate_optimize THEN 1 ELSE 0)
        /\ \A i \in 5 .. 8 : b[i] = 0

\* C26 witness: SF5 at 500 kHz, CR 4/6 with the low-data-rate flag has been
\* encoded.
C26_Witness ==
    /\ ConvertedBy("ModParams::from")
    /\ result.inner = << 5, 6, 2, 1, 0, 0, 0, 0 >>

(***************************************************************************)
(* Claims on the default configuration, the busy handshake and reset.      *)
(***************************************************************************)
\* C27: init_async with Config::default() ends with a WriteRegister to the
\* LoRa sync-word register (0x0740) whose two data bytes are 0x14, 0x24, the
\* private-network sync word 0x1424 written big-endian.
C27_DefaultSyncWord1424 ==
    (InitDone /\ conf = DefaultConfig) =>
        LET cs == Cmds(trace) IN
        /\ Len(cs) > 0
        /\ cs[Len(cs)].data = << 13, 7, 64, 20, 36 >>

\* C28: in init_async and write_bytes_async the busy line is waited on and
\* observed low between any two consecutive command transactions.  (The
\* history only grows during a call, so it is enough to look back from a
\* command that has just been issued to the command before it.)
C28_BusyLowBetweenCommands ==
    (op \in { "init", "send" } /\ Len(trace) >= 2 /\ IsCmd(trace[Len(trace)])) =>
        LET n == Len(trace)
            before == { i \in 1 .. (n - 1) : IsCmd(trace[i]) }
        IN before # { } =>
             \E k \in 1 .. (n - 1) :
                /\ \A i \in before : i < k
                /\ trace[k].kind = "busy" /\ trace[k].ok
                /\ trace[k].data = << 0 >>

\* reset, the first step of init_async, has returned to init_async.
ResetReturned ==
    op = "init" /\ ~(pc = "reset" /\ sub \in { "low", "delay", "high" })

\* C29: reset performs its three actions in this order: it drives the reset
\* line low, holds it low for a delay of at least 100 microseconds (a
\* 200,000 ns delay on the bus), then drives the line high; no bus command
\* is issued while the line is low.
C29_ResetLowDelayHigh ==
    /\ ResetDelayNs >= 100000
    /\ ResetReturned =>
          /\ Len(trace) >= 3
          /\ SubSeq(trace, 1, 3) = << Ev("nrst", << 0 >>, TRUE),
                                      Ev("delay", << ResetDelayNs >>, TRUE),
                                      Ev("nrst", << 1 >>, TRUE) >>
    /\ (op = "init" /\ trace # << >> /\ IsCmd(trace[Len(trace)])) =>
          \E i \in 1 .. Len(trace) :
             /\ trace[i] = Ev("nrst", << 1 >>, TRUE)
             /\ \A j \in (i + 1) .. Len(trace) : trace[j].kind # "nrst"

\* C30: whenever reset returns, with success or with an error, the reset
\* line has been driven high again, and init_async never issues a command
\* while the reset line is low.
C30_ResetLeavesLineHigh ==
    /\ ResetReturned => nrst = 1
    /\ (op = "init" /\ trace # << >> /\ IsCmd(trace[Len(trace)])) => nrst = 1

(***************************************************************************)
(* Claims on the single-command operations and on termination.             *)
(***************************************************************************)
\* C31: a command whose transaction only writes reports a failed transaction
\* as SpiError::Write, a command whose transaction writes and reads (a
\* transfer, or a write followed by a read) reports it as
\* SpiError::Transfer, and no command reports one kind for the other's
\* failure.
C31_ErrorKindFollowsTransaction ==
    (CommandDone /\ Len(trace) = 1 /\ ~trace[1].ok) =>
        /\ trace[1].kind = "write" => result = "Write"
        /\ trace[1].kind \in { "transfer", "read" } => result = "Transfer"

\* C32: the Status returned by set_rx does not depend on the timeout
\* argument: the Status a call has returned is the Status a call with any
\* other timeout returns against a chip that answers with the same bytes.
C32_RxStatusIndependentOfTimeout ==
    (CommandDone /\ args.name = "set_rx" /\ result = "Ok") =>
        \A t \in Timeouts : CommandValue("set_rx", << t >>, rxbuf) = status

AllOk(tr) == \A i \in 1 .. Len(tr) : tr[i].ok

\* write_bytes_async has returned success, ClearIrqStatus being the last
\* thing it did.
SendReturnedAfterClear ==
    /\ SendDone
    /\ AllOk(trace) =>
          /\ result = "Ok"
          /\ trace # << >>
          /\ trace[Len(trace)] = Ev("write", << 2, 255, 255 >>, TRUE)

\* C33: send terminates when the hardware responds: a write_bytes_async that
\* has been started eventually returns, with success and after issuing
\* ClearIrqStatus if every bus transaction and line read succeeded, the
\* busy line having read low and DIO1 high after finitely many samples; and
\* an init_async that has been started eventually returns.
C33_CallsTerminate ==
    /\ (op = "send" /\ pc # "done") ~> SendReturnedAfterClear
    /\ (op = "init" /\ pc # "done") ~> InitDone

\* C33 witness: a send has returned success in which a line was sampled at
\* the level that is not awaited before it read the awaited one.
C33_Witness ==
    /\ SendDone /\ result = "Ok" /\ AllOk(trace)
    /\ \E i \in 1 .. Len(trace) :
          \/ trace[i] = Ev("busy", << 1 >>, TRUE)
          \/ trace[i] = Ev("dio1", << 0 >>, TRUE)
    /\ trace[Len(trace)] = Ev("write", << 2, 255, 255 >>, TRUE)

\* The status and buffer queries with the read opcode of each.
QueryOpcode(name) ==
    CASE name = "get_status" -> 192
      [] name = "get_stats" -> 16
      [] name = "get_packet_status" -> 20
      [] name = "get_device_errors" -> 23
      [] name = "get_irq_status" -> 18
      [] name = "get_rx_buffer_status" -> 19
      [] name = "read_buffer" -> 30
      [] name = "read_register" -> 29
QueryNames ==
    { "get_status", "get_stats", "get_packet_status", "get_device_errors",
      "get_irq_status", "get_rx_buffer_status", "read_buffer", "read_register" }
IsBusEvent(e) == e.kind \in { "write", "transfer", "read", "delay" }

\* C34: each status or buffer query issues a single bus transaction that
\* carries only its own read opcode (followed by the address or offset it
\* reads from and NOP bytes), and leaves the reset line and the
\* antenna-enable line unchanged; set_ant_enabled changes only the
\* antenna-enable line and issues no bus transaction.
C34_QueriesAndAntSwitchFrame ==
    [][ /\ (op = "command" /\ op' = "command" /\ args.name \in QueryNames) =>
             /\ nrst' = nrst /\ ant' = ant /\ variant' = variant
             /\ Len(trace') <= 1
             /\ pc' = "done" => Len(trace') = 1
             /\ trace' # << >> =>
                  LET d == trace'[1].data IN
                  /\ d[1] = QueryOpcode(args.name)
                  /\ Tail(d) = (CASE args.name = "read_register" -> U16BE(args.arg[1])
                                  [] args.name = "read_buffer" -> << args.arg[1], NOP >>
                                  [] OTHER -> [i \in 1 .. (Len(d) - 1) |-> NOP])
        /\ (op = "set_ant_enabled" /\ op' = "set_ant_enabled") =>
             /\ nrst' = nrst /\ variant' = variant
             /\ status' = status /\ rxbuf' = rxbuf
             /\ \A i \in 1 .. Len(trace') : ~IsBusEvent(trace'[i])
             /\ pc' = "done" => ant' = (IF args.enabled THEN 1 ELSE 0)
      ]_vars

\* C34 witness: get_stats has returned its value while the antenna-enable
\* line was high, set_ant_enabled(true) having driven it there.
C34_Witness ==
    /\ CommandDone /\ args.name = "get_stats" /\ result = "Ok"
    /\ ant = 1
    /\ trace = << Ev("transfer", << 16, 0, 0, 0, 0, 0, 0, 0 >>, TRUE) >>

\* C35: the CAD parameter constructors validate their range:
\* CadDetPeak::new(v) succeeds exactly when 18 <= v <= 35, CadDetMin::new(v)
\* exactly when v = 10, and CadTimeout::new accepts no value above 0xFFFF
\* (the timeout is a 16-bit value); a constructor that succeeds stores the
\* value unchanged and one that fails returns the error "Value out of
\* range".
C35_CadConstructorsValidate ==
    /\ ConvertedBy("CadDetPeak::new") =>
          (result.ok <=> (18 <= args.value /\ args.value <= 35))
    /\ ConvertedBy("CadDetMin::new") => (result.ok <=> args.value = 10)
    /\ ConvertedBy("CadTimeout::new") => (result.ok => args.value <= 65535)
    /\ (pc = "output"
         /\ op \in { "CadDetPeak::new", "CadDetMin::new", "CadTimeout::new" }) =>
          /\ result.ok => result.val = args.value
          /\ ~result.ok => result.err = "Value out of range"

====
